---------------------------- MODULE Spec2Model ----------------------------
(***************************************************************************)
(* Variant resolution engine of robot-is-chill (src/src/cogs/variants.py). *)
(*                                                                         *)
(* Five specifications share the variables below:                         *)
(*   SpecCodec  the pure functions split_variant / join_variant and the    *)
(*              direction and frame rules, applied to inputs drawn from    *)
(*              bounded sets;                                              *)
(*   Spec       VariantHandlers.handle_grid, with handle_tile, the         *)
(*              default factory, the registered handlers and the           *)
(*              finalizer;                                                 *)
(*   SpecProbe  VariantHandlers.valid_variants, the diagnostic probe of    *)
(*              every documented token of every rule against one tile.     *)
(*   SpecAll    either call, for what holds of every operation;            *)
(*   SpecRegister  calls of VariantHandlers.handler with and without       *)
(*              `order`, then handle_grid with the registry they built.    *)
(***************************************************************************)
EXTENDS Integers, Sequences, FiniteSets, TLC

VARIABLES
    \* ---- codec harness (SpecCodec) ----
    cpc,        \* "off" | "input" | "joined" | "split"
    cdir,       \* dir argument of join_variant
    canim,      \* anim argument of join_variant
    cvariant,   \* variant argument of split_variant (None or Some(v))
    cjoined,    \* result of join_variant(cdir, canim), None before the call
    cround,     \* result of split_variant(join_variant(cdir, canim))
    csplit,     \* result of split_variant(cvariant)
    ctiling,    \* tiling category of the tile the two token orders are applied to
    cdirfirst,  \* variant numbers after a direction token and then a frame token
    cframefirst,\* variant numbers after a frame token and then a direction token
    \* ---- resolution engine (Spec) ----
    pc,         \* position in handle_grid / handle_tile
    handlers,   \* VariantHandlers.handlers: the ordered list of rules
    grid,       \* the RawGrid argument of handle_grid
    db,         \* the static metadata store behind bot.db.tiles
    flags,      \* the **flags of handle_grid: the set of flags that are truthy
    tile_data_cache, \* the cache built by handle_grid, None before the fetch
    pos,        \* index of the current cell in the iteration order of handle_grid
    fields,     \* handle_tile: the accumulator (TileFields)
    extras,     \* handle_tile: the tile-local extras map
    vi,         \* handle_tile: index of the current token in tile.variants
    hi,         \* handle_tile: list position of the handler the scan looks at next
    failed,     \* handle_tile: the `failed` flag of the current token
    applied,    \* observer: the handlers invoked for the current token, in order
    out,        \* descriptors built so far by the comprehension of handle_grid
    extra_names,\* the list passed as the extra_names flag: None or Some(list)
    result,     \* what handle_grid returned: None or Some(descriptors)
    error,      \* the exception that left handle_grid: None or Some(exception)
    tiling_variants, \* which constants.TILING_VARIANTS table is installed
    fetched,    \* observer: the name sets requested from bot.db.tiles, in order
    registered, \* observer: the calls of VariantHandlers.handler made so far
    \* ---- diagnostic probe (SpecProbe) ----
    vpc,        \* "off" | "probe" | "returned" | "raised"
    vtile,      \* the tile argument of valid_variants
    vcache,     \* the tile_data_cache argument of valid_variants
    vh,         \* list position of the handler whose hints are probed
    vk,         \* position of the hint probed next among that handler's hints
    vout,       \* the `out` dict: group |-> list of descriptions
    vctx,       \* observer: the mock contexts handed to the handlers, in order
    verror      \* the exception that left valid_variants: None or Some(exception)

cvars == <<cpc, cdir, canim, cvariant, cjoined, cround, csplit, ctiling,
           cdirfirst, cframefirst>>
evars == <<pc, handlers, grid, db, flags, tile_data_cache, pos, fields, extras,
           vi, hi, failed, applied, out, extra_names, result, error, tiling_variants,
           fetched, registered>>
vvars == <<vpc, vtile, vcache, vh, vk, vout, vctx, verror>>
vars == <<cvars, evars, vvars>>

---------------------------------------------------------------------------
(* Python's None and a present value. *)
None == <<>>
Some(v) == <<v>>
Val(o) == o[1]

---------------------------------------------------------------------------
(* Variant codec: src/src/cogs/variants.py 283-296.                        *)

\* A split_variant that forgets the sleep frame: remainder 7 is reported as
\* animation 7 of the same direction.
split_variant_NoSleep(variant) ==
    IF variant = None THEN <<0, 0>>
    ELSE <<(Val(variant) \div 8) * 8, Val(variant) % 8>>

\* A split_variant whose sleep frame does not wrap from direction 24 to 0.
split_variant_NoWrap(variant) ==
    IF variant = None THEN <<0, 0>>
    ELSE LET dir  == Val(variant) \div 8
             anim == Val(variant) % 8
         IN  IF anim = 7 THEN <<(dir + 1) * 8, -1>>
                         ELSE <<dir * 8, anim>>

\* split_variant(variant): divmod(variant, 8); remainder 7 is the sleep frame
\* of the next direction.
split_variant(variant) ==
    IF variant = None THEN <<0, 0>>
    ELSE LET dir  == Val(variant) \div 8
             anim == Val(variant) % 8
         IN  IF anim = 7 THEN <<((dir + 1) % 4) * 8, -1>>
                         ELSE <<dir * 8, anim>>

\* A join_variant that wraps at 24 instead of 32.
join_variant_Wrap24(dir, anim) == (dir + anim) % 24

\* join_variant(dir, anim) = (dir + anim) % 32
join_variant(dir, anim) == (dir + anim) % 32

\* The input sets of the codec harness.
CodecDirections == {0, 8, 16, 24}
CodecAnimations == -1 .. 6
CodecVariants == {None} \cup {Some(v) : v \in 0 .. 31}

---------------------------------------------------------------------------
(* Bounds of the inputs of handle_grid.                                    *)

\* Most modifier tokens carried by the tiles of one grid, all tiles together.
MaxTokens == 2
\* Most cells (columns of the single row) of a grid.
MaxCells == 2
\* Most columns of a grid of several rows.
MaxColumns == 3
\* Most rows of a grid of several rows: the rows y - 1 .. y + 1 that the
\* default factory looks at around a cell.
MaxRows == 3

---------------------------------------------------------------------------
(* Constants of src/constants.py that the handlers read.  Tiling           *)
(* categories are kept as the text of their number, so that they compare   *)
(* with the "<missing>" and None arguments some exceptions carry.          *)

Tilings == {"-1", "0", "1", "2", "3", "4"}
AUTO_TILINGS == {"1"}
DIRECTION_TILINGS == {"0", "2", "3"}
ANIMATION_TILINGS == {"2", "3", "4"}
SLEEP_TILINGS == {"2"}
DIRECTIONS == {0, 8, 16, 24}
DIRECTION_VARIANTS ==
    [t \in {"r", "right", "u", "up", "l", "left", "d", "down"} |->
        CASE t \in {"r", "right"} -> 0
          [] t \in {"u", "up"}    -> 8
          [] t \in {"l", "left"}  -> 16
          [] OTHER                -> 24]
\* constants.AUTO_VARIANTS: the auto-tiling tokens and the bit each one sets
AUTO_VARIANTS == [t \in {"tr", "tu"} |-> IF t = "tr" THEN 1 ELSE 2]
ANIMATION_VALUES == {0, 1, 2, 3}
SLEEP_VALUES == {-1}
\* constants.ANIMATION_VARIANTS and constants.SLEEP_VARIANTS: the frame tokens
ANIMATION_VARIANTS ==
    [t \in {"a0", "a1", "a2", "a3"} |->
        CASE t = "a0" -> 0 [] t = "a1" -> 1 [] t = "a2" -> 2 [] OTHER -> 3]
SLEEP_VARIANTS == [t \in {"s", "sleep"} |-> -1]
\* constants.MAX_META_DEPTH
MAX_META_DEPTH == 24
TEXT_TYPES == [t \in {"0", "2"} |-> IF t = "0" THEN "noun" ELSE "property"]

\* constants.TILING_VARIANTS: the table from the 8 joining bits (right, up,
\* left, down, right-up, up-left, left-down, down-right) to a variant id; the
\* ids are the bits read as a binary number.  Two tables are modelled: the
\* "full" one has an entry for every mask whose set diagonal bits have both
\* their cardinal neighbours set, the "cardinal" one only the 16 entries of
\* the masks without diagonal bits, which every table has.
Bit(b) == IF b THEN 1 ELSE 0
TilingTables == {"full", "cardinal"}
TilingKeys ==
    {m \in [1 .. 8 -> BOOLEAN] :
        /\ m[5] => (m[1] /\ m[2])
        /\ m[6] => (m[2] /\ m[3])
        /\ m[7] => (m[3] /\ m[4])
        /\ m[8] => (m[4] /\ m[1])
        /\ tiling_variants = "cardinal" => \A k \in 5 .. 8 : ~m[k]}
TilingId(m) ==
    Bit(m[1]) + 2 * Bit(m[2]) + 4 * Bit(m[3]) + 8 * Bit(m[4])
    + 16 * Bit(m[5]) + 32 * Bit(m[6]) + 64 * Bit(m[7]) + 128 * Bit(m[8])
\* TILING_VARIANTS.get(key, default)
TILING_VARIANTS_get(m, default) ==
    IF m \in TilingKeys THEN TilingId(m) ELSE default

---------------------------------------------------------------------------
(* Inputs: tiles, grids, the static metadata store, flags.                 *)

\* The modifier tokens the inputs draw from.
Tokens == {"u", "8", "noun", "neon", "neon2.0", "c1", "zzqq"}

Names == {"baba", "text_ab", "-"}
\* The names of the grids that exercise auto-tiling: an auto-tiling tile and
\* the two names that join with every tile.
TilingNames == {"wall", "level", "border"}
\* Text names whose part after "text_" has two and three characters.
LetterNames == {"text_ab", "text_abc"}
AllNames == Names \cup TilingNames \cup LetterNames
\* RawTile.is_text: the name starts with "text_".
IsText(name) == name \in LetterNames
\* len(name[5:])
SuffixLen(name) ==
    CASE name = "text_ab" -> 2
      [] name = "text_abc" -> 3
      [] name = "baba"    -> 0
      [] OTHER            -> 0

RawTile(name, variants) ==
    [name |-> name, variants |-> variants, is_text |-> IsText(name)]

\* TileData records of the store: the attributes the engine reads.
TileData(name, tiling, text_type) ==
    [name |-> name, tiling |-> tiling, text_type |-> text_type,
     active_color |-> <<1, 4>>, source |-> "vanilla", sprite |-> name]

RecordsFor(name) ==
    IF name = "-" THEN {}
    ELSE {TileData(name, t, tt) :
            t \in Tilings,
            tt \in IF IsText(name) THEN {"0", "2"} ELSE {"0"}}

SeqsUpTo(S, n) == UNION {[1 .. k -> S] : k \in 0 .. n}

\* A grid of one step, one layer and one row of the given tiles:
\* grid[step][layer][row][column] is a RawTile.
RowGrid(tiles) == << << << tiles >> >> >>

\* The tiles of the grid in the order handle_grid resolves them, each with the
\* index handle_grid passes to handle_tile.  Python indices count from 0.
CellSet(g) ==
    UNION {UNION {UNION {{<<d, l, y, x>> : x \in 1 .. Len(g[d][l][y])} :
                            y \in 1 .. Len(g[d][l])} :
                     l \in 1 .. Len(g[d])} :
              d \in 1 .. Len(g)}
Before(a, b) ==
    \E k \in 1 .. 4 : a[k] < b[k] /\ \A j \in 1 .. (k - 1) : a[j] = b[j]
Cells(g) ==
    LET S == CellSet(g)
    IN  [n \in 1 .. Cardinality(S) |->
            CHOOSE c \in S : Cardinality({b \in S : Before(b, c)}) = n - 1]
TileAt(g, c) == g[c[1]][c[2]][c[3]][c[4]]
\* The index argument (d, x, y, z) of handle_tile for the cell c.
IndexOf(c) == <<c[1] - 1, c[3] - 1, c[2] - 1, c[4] - 1>>
GridNames(g) == {TileAt(g, c).name : c \in CellSet(g)}
TotalTokens(tiles) ==
    LET RECURSIVE Sum(_)
        Sum(k) == IF k = 0 THEN 0 ELSE Len(tiles[k].variants) + Sum(k - 1)
    IN  Sum(Len(tiles))

InputTiles(toks, budget) ==
    {RawTile(n, v) : n \in Names, v \in SeqsUpTo(toks, budget)}
\* The rows of exactly n tiles that carry at most `budget` tokens together.
RECURSIVE RowsOf(_, _, _)
RowsOf(toks, n, budget) ==
    IF n = 0 THEN {<<>>}
    ELSE UNION {{<<t>> \o r : r \in RowsOf(toks, n - 1, budget - Len(t.variants))} :
                    t \in InputTiles(toks, budget)}
\* One-cell grids draw from every token; larger grids from GridTokens.
GridTokens == {"neon", "zzqq"}
OneCellRows == RowsOf(Tokens, 1, MaxTokens)
ManyCellRows == UNION {RowsOf(GridTokens, n, MaxTokens) : n \in 2 .. MaxCells}

\* Grids of one step and one layer with several rows, for auto-tiling:
\* grids of tiles without tokens named wall (auto-tiling) or baba, small
\* grids that hold the names joining with every tile, and rows of tiles
\* that carry auto tokens.
Layer(names) ==
    << << [y \in DOMAIN names |->
             [x \in DOMAIN names[y] |-> RawTile(names[y][x], <<>>)]] >> >>
Matrices(S, rows, columns) ==
    UNION {[1 .. r -> [1 .. c -> S]] : r \in 1 .. rows, c \in 1 .. columns}
WallGrids == {Layer(m) : m \in Matrices({"wall", "baba"}, MaxRows, MaxColumns)}
JoiningGrids == {Layer(m) : m \in Matrices(TilingNames, 2, 2)}
RECURSIVE RowsOver(_, _, _, _)
RowsOver(names, toks, n, budget) ==
    IF n = 0 THEN {<<>>}
    ELSE UNION {{<<RawTile(nm, v)>> \o r :
                    r \in RowsOver(names, toks, n - 1, budget - Len(v))} :
                 nm \in names, v \in SeqsUpTo(toks, budget)}
AutoRows ==
    UNION {RowsOver({"wall", "baba"}, DOMAIN AUTO_VARIANTS, n, MaxTokens) :
              n \in 1 .. MaxCells}
\* Grids of several steps and layers, as <<steps, layers, rows, columns>>,
\* of tiles without tokens named wall or baba.
AxisShapes == {<<1, 2, 2, 2>>, <<2, 2, 2, 1>>}
AxisGrids ==
    UNION {[1 .. sh[1] -> [1 .. sh[2] -> [1 .. sh[3] -> [1 .. sh[4] ->
                {RawTile(n, <<>>) : n \in {"wall", "baba"}}]]]] :
              sh \in AxisShapes}
\* One-cell grids of a tile that carries direction, frame and auto tokens.
FrameTokens == {"u", "a1", "s", "tr"}
FrameRows == RowsOver({"baba"}, FrameTokens, 1, MaxTokens)
\* One-cell grids of a tile that carries meta tokens.
MetaRowTokens == {"m", "m1", "m24", "m25", "m-25", "neon"}
MetaRows == RowsOver({"baba", "text_ab"}, MetaRowTokens, 1, MaxTokens)
\* One-cell grids of a text tile that may carry the noun token.
LetterRows == RowsOver(LetterNames, {"noun"}, 1, 1)
TilingFlags == {"tile_borders"}
LetterFlags == {"default_to_letters"}

\* The stores a grid is resolved against.  A store maps a name to None or to
\* Some(record).  One-cell grids meet every record of their tile; larger
\* grids meet the empty store and one store that knows every name.
NoStore == [n \in AllNames |-> None]
FullStore ==
    [n \in AllNames |->
        CASE n = "baba"    -> Some(TileData(n, "2", "0"))
          [] n = "text_ab" -> Some(TileData(n, "-1", "0"))
          [] n = "wall"    -> Some(TileData(n, "1", "0"))
          [] n \in {"level", "border"} -> Some(TileData(n, "-1", "0"))
          [] OTHER         -> None]
InputStores(tiles) ==
    IF Len(tiles) = 1
    THEN {NoStore} \cup
         {[NoStore EXCEPT ![tiles[1].name] = Some(r)] : r \in RecordsFor(tiles[1].name)}
    ELSE {NoStore, FullStore}

FlagNames == {"ignore_bad_directions", "disallow_custom_directions",
              "default_to_letters"}

---------------------------------------------------------------------------
(* TileFields: a dict from attribute names to values.                      *)

EmptyFields == [k \in {} |-> 0]
\* fields.get(key): None when the key is absent
FieldsGet(f, key) == IF key \in DOMAIN f THEN Some(f[key]) ELSE None
\* fields.update(g)
FieldsUpdate(f, g) ==
    [k \in DOMAIN f \cup DOMAIN g |-> IF k \in DOMAIN g THEN g[k] ELSE f[k]]

---------------------------------------------------------------------------
(* ContextBase: src/src/cogs/variants.py 22-55.                            *)

DefaultContext(tile, g, index, cache, fl) ==
    [tile |-> tile, grid |-> g, index |-> index, tile_data_cache |-> cache,
     flags |-> fl]

HandlerContext(tile, g, index, cache, fl, f, variant, groups, ex) ==
    [tile |-> tile, grid |-> g, index |-> index, tile_data_cache |-> cache,
     flags |-> fl, fields |-> f, variant |-> variant, groups |-> groups,
     extras |-> ex]

\* ContextBase.tile_data: tile_data_cache.get(tile.name)
tile_data(ctx) ==
    IF ctx.tile.name \in DOMAIN ctx.tile_data_cache
    THEN Some(ctx.tile_data_cache[ctx.tile.name])
    ELSE None

\* An is_adjacent for which every coordinate outside the layer joins.
is_adjacent_EdgesJoin(ctx, coordinate) ==
    LET d == coordinate[1]
        x == coordinate[2]
        y == coordinate[3]
        l == coordinate[4]
        layer == ctx.grid[d + 1][l + 1]
    IN  IF x < 0 \/ y < 0 \/ y >= Len(layer) \/ x >= Len(layer[1])
        THEN TRUE
        ELSE layer[y + 1][x + 1].name \in {ctx.tile.name, "level", "border"}

\* ContextBase.is_adjacent((d, x, y, l)), with Python's indices from 0.
is_adjacent(ctx, coordinate) ==
    LET d == coordinate[1]
        x == coordinate[2]
        y == coordinate[3]
        l == coordinate[4]
        layer == ctx.grid[d + 1][l + 1]
    IN  IF x < 0 \/ y < 0 \/ y >= Len(layer) \/ x >= Len(layer[1])
        THEN "tile_borders" \in ctx.flags
        ELSE layer[y + 1][x + 1].name \in {ctx.tile.name, "level", "border"}

---------------------------------------------------------------------------
(* What a call returns: a value, or the exception it raised.               *)

Return(v) == [raised |-> FALSE, value |-> v]
Raise(e) == [raised |-> TRUE, exc |-> e]

TileNotFound(tile) == [kind |-> "TileNotFound", tile |-> tile.name]
UnknownVariant(tile, variant) ==
    [kind |-> "UnknownVariant", tile |-> tile.name, variant |-> variant]
\* BadTilingVariant(tile, variant, tiling); the first argument is the tile in
\* `directions` and the tile's name elsewhere: the name is kept in both cases.
BadTilingVariant(name, variant, tiling) ==
    [kind |-> "BadTilingVariant", tile |-> name, variant |-> variant,
     tiling |-> tiling]
TileNotText(name, style) ==
    [kind |-> "TileNotText", tile |-> name, variant |-> style]
VariantError(msg) == [kind |-> "VariantError", msg |-> msg]
BadMetaVariant(name, variant, level) ==
    [kind |-> "BadMetaVariant", tile |-> name, variant |-> variant,
     depth |-> level]
\* errors.VariantError and its subclasses
VariantErrorKinds ==
    {"VariantError", "UnknownVariant", "BadTilingVariant", "TileNotText",
     "TileNotFound", "BadMetaVariant", "BadPaletteIndex", "BadLetterVariant"}

---------------------------------------------------------------------------
(* The default factory: src/src/cogs/variants.py 304-357.                  *)

\* An adjacency mask whose diagonal bits do not ask for the cardinal ones.
adj_DiagonalAlone(ctx) ==
    LET d == ctx.index[1]
        y == ctx.index[2]
        t == ctx.index[3]
        x == ctx.index[4]
    IN  <<is_adjacent(ctx, <<d, x + 1, y, t>>),
          is_adjacent(ctx, <<d, x, y - 1, t>>),
          is_adjacent(ctx, <<d, x - 1, y, t>>),
          is_adjacent(ctx, <<d, x, y + 1, t>>),
          is_adjacent(ctx, <<d, x + 1, y - 1, t>>),
          is_adjacent(ctx, <<d, x - 1, y - 1, t>>),
          is_adjacent(ctx, <<d, x - 1, y + 1, t>>),
          is_adjacent(ctx, <<d, x + 1, y + 1, t>>)>>

\* default, lines 318-336: the coordinate handed to is_adjacent for the
\* neighbour dx columns and dy rows away.
neighbour(ctx, dx, dy) ==
    LET d == ctx.index[1]
        y == ctx.index[2]
        t == ctx.index[3]
        x == ctx.index[4]
    IN  <<d, x + dx, y + dy, t>>

\* An adjacency mask that takes the row below for "up" and the row above for
\* "down".
adj_UpsideDown(ctx) ==
    LET adj_right == is_adjacent(ctx, neighbour(ctx, 1, 0))
        adj_up    == is_adjacent(ctx, neighbour(ctx, 0, 1))
        adj_left  == is_adjacent(ctx, neighbour(ctx, -1, 0))
        adj_down  == is_adjacent(ctx, neighbour(ctx, 0, -1))
    IN  <<adj_right, adj_up, adj_left, adj_down,
          adj_right /\ adj_up /\ is_adjacent(ctx, neighbour(ctx, 1, 1)),
          adj_up /\ adj_left /\ is_adjacent(ctx, neighbour(ctx, -1, 1)),
          adj_left /\ adj_down /\ is_adjacent(ctx, neighbour(ctx, -1, -1)),
          adj_down /\ adj_right /\ is_adjacent(ctx, neighbour(ctx, 1, -1))>>

\* default, lines 318-336: adj_right, adj_up, adj_left, adj_down, adj_rightup,
\* adj_upleft, adj_leftdown, adj_downright.
adj(ctx) ==
    LET d == ctx.index[1]
        y == ctx.index[2]
        t == ctx.index[3]
        x == ctx.index[4]
        adj_right == is_adjacent(ctx, <<d, x + 1, y, t>>)
        adj_up    == is_adjacent(ctx, <<d, x, y - 1, t>>)
        adj_left  == is_adjacent(ctx, <<d, x - 1, y, t>>)
        adj_down  == is_adjacent(ctx, <<d, x, y + 1, t>>)
    IN  <<adj_right, adj_up, adj_left, adj_down,
          adj_right /\ adj_up /\ is_adjacent(ctx, <<d, x + 1, y - 1, t>>),
          adj_up /\ adj_left /\ is_adjacent(ctx, <<d, x - 1, y - 1, t>>),
          adj_left /\ adj_down /\ is_adjacent(ctx, <<d, x - 1, y + 1, t>>),
          adj_down /\ adj_right /\ is_adjacent(ctx, <<d, x + 1, y + 1, t>>)>>

\* The mask of the four cardinal bits alone, the diagonal bits False.
Cardinal(m) == [k \in 1 .. 8 |-> k <= 4 /\ m[k]]

\* An auto-tiling computation that leaves variant_fallback at 0.
auto_tiling_NoFallback(ctx) ==
    <<TILING_VARIANTS_get(adj(ctx), 0), 0>>

\* default, lines 323-340: <<variant, variant_fallback>> of an auto-tiling tile.
auto_tiling(ctx) ==
    LET variant_fallback == TilingId(Cardinal(adj(ctx)))
    IN  <<TILING_VARIANTS_get(adj(ctx), variant_fallback), variant_fallback>>

\* A default factory that tolerates no tile without a record, text or not.
default_NoText(ctx) ==
    IF ctx.tile.name = "-" THEN Return([empty |-> TRUE])
    ELSE
    LET td == tile_data(ctx) IN
    IF td # None THEN
        LET rec == Val(td)
            auto == rec.tiling \in AUTO_TILINGS
            color == IF "raw_output" \in ctx.flags THEN <<0, 3>>
                     ELSE rec.active_color
        IN  Return([variant_number |-> IF auto THEN auto_tiling(ctx)[1] ELSE 0,
                    variant_fallback |-> IF auto THEN auto_tiling(ctx)[2] ELSE 0,
                    color_index |-> color,
                    meta_level |-> 0,
                    sprite |-> <<rec.source, rec.sprite>>])
    ELSE Raise(TileNotFound(ctx.tile))

default(ctx) ==
    IF ctx.tile.name = "-" THEN Return([empty |-> TRUE])
    ELSE
    LET td == tile_data(ctx) IN
    IF td # None THEN
        LET rec == Val(td)
            auto == rec.tiling \in AUTO_TILINGS
            color == IF "raw_output" \in ctx.flags THEN <<0, 3>>
                     ELSE rec.active_color
        IN  Return([variant_number |-> IF auto THEN auto_tiling(ctx)[1] ELSE 0,
                    variant_fallback |-> IF auto THEN auto_tiling(ctx)[2] ELSE 0,
                    color_index |-> color,
                    meta_level |-> 0,
                    sprite |-> <<rec.source, rec.sprite>>])
    ELSE IF ~ctx.tile.is_text THEN Raise(TileNotFound(ctx.tile))
    ELSE Return([custom |-> TRUE,
                 variant_number |-> 0,
                 color_index |-> <<0, 3>>,
                 meta_level |-> 0])

---------------------------------------------------------------------------
(* Handler.match: re.fullmatch(pattern, variant), on the tokens of the     *)
(* model.  The result is None or Some(groups).                             *)

\* int(variant) for the tokens that \d{1,2} matches
IntTokens == [t \in {"0", "8"} |-> IF t = "0" THEN 0 ELSE 8]

\* The tokens of the inputs that match m(-?\d+), with the text of the group.
MetaTokens ==
    [t \in {"m1", "m24", "m25", "m-25"} |->
        CASE t = "m1" -> "1" [] t = "m24" -> "24" [] t = "m25" -> "25"
          [] OTHER -> "-25"]
\* int(text) for the texts above
int(text) ==
    CASE text = "1" -> 1 [] text = "24" -> 24 [] text = "25" -> 25
      [] text = "-25" -> -25
abs(n) == IF n < 0 THEN -n ELSE n

\* Handlers are named after their functions; the two rules both called
\* `colselect` are told apart as colselect_slice (the first registered) and
\* colselect_list.
match(handler, variant) ==
    CASE handler = "directions" ->
            IF variant \in DOMAIN DIRECTION_VARIANTS THEN Some(<<>>) ELSE None
      [] handler = "animations" ->
            IF variant \in DOMAIN ANIMATION_VARIANTS THEN Some(<<>>) ELSE None
      [] handler = "sleep" ->
            IF variant \in DOMAIN SLEEP_VARIANTS THEN Some(<<>>) ELSE None
      [] handler = "auto" ->
            IF variant \in DOMAIN AUTO_VARIANTS THEN Some(<<>>) ELSE None
      [] handler = "meta" ->
            IF variant \in {"meta", "m"} THEN Some(<<>>) ELSE None
      [] handler = "meta_absolute" ->
            IF variant \in DOMAIN MetaTokens
            THEN Some(<<Some(MetaTokens[variant])>>) ELSE None
      [] handler = "reverse" ->
            IF variant \in {"reverse", "rev"} THEN Some(<<>>) ELSE None
      [] handler = "raw_variant" ->
            IF variant \in DOMAIN IntTokens THEN Some(<<>>) ELSE None
      [] handler = "noun" ->
            IF variant = "noun" THEN Some(<<>>) ELSE None
      [] handler = "neon" ->
            CASE variant = "neon"    -> Some(<<None>>)
              [] variant = "neon2.0" -> Some(<<Some("2.0")>>)
              [] OTHER               -> None
      [] handler = "brightness" ->
            CASE variant = "brightness" -> Some(<<Some("")>>)
              [] OTHER                  -> None
      [] handler = "colselect_slice" ->
            CASE variant = "c1"    -> Some(<<Some("1"), None, None>>)
              [] variant = "color" -> Some(<<None, None, None>>)
              [] OTHER             -> None
      [] handler = "colselect_list" ->
            CASE variant = "c1" -> Some(<<Some("1")>>)
              [] OTHER          -> None
      [] OTHER -> None

---------------------------------------------------------------------------
(* The handlers registered by setup: src/src/cogs/variants.py 377-1350.    *)

\* An `add` that starts the list again instead of appending.
add_Overwrite(ctx, dst, var) ==
    [filters |-> <<<<dst, var>>>>]

\* add(ctx, dst, var): the entry appended to the filters list, or a new
\* single-entry list when fields has no filters (None + list is a TypeError).
add(ctx, dst, var) ==
    LET f == FieldsGet(ctx.fields, "filters")
    IN  IF f = None THEN [filters |-> <<<<dst, var>>>>]
        ELSE [filters |-> Append(Val(f), <<dst, var>>)]

\* A `directions` that refuses every direction the tiling does not support,
\* whatever the flags.
directions_Strict(ctx) ==
    LET dir == DIRECTION_VARIANTS[ctx.variant]
        anim == split_variant(FieldsGet(ctx.fields, "variant_number"))[2]
        td == tile_data(ctx)
    IN  IF td # None /\ Val(td).tiling \in DIRECTION_TILINGS
        THEN Return([variant_number |-> join_variant(dir, anim),
                     custom_direction |-> dir])
        ELSE Raise(BadTilingVariant(ctx.tile.name, ctx.variant,
                       IF td = None THEN "<missing>" ELSE Val(td).tiling))

directions(ctx) ==
    LET dir == DIRECTION_VARIANTS[ctx.variant]
        anim == split_variant(FieldsGet(ctx.fields, "variant_number"))[2]
        td == tile_data(ctx)
    IN  IF td # None /\ Val(td).tiling \in DIRECTION_TILINGS
        THEN Return([variant_number |-> join_variant(dir, anim),
                     custom_direction |-> dir])
        ELSE IF "ignore_bad_directions" \in ctx.flags
        THEN Return(EmptyFields)
        ELSE IF "disallow_custom_directions" \in ctx.flags /\ ~ctx.tile.is_text
        THEN Raise(BadTilingVariant(ctx.tile.name, ctx.variant, "<missing>"))
        ELSE Return([custom_direction |-> dir])

\* Python's | on non-negative integers
RECURSIVE BitOr(_, _)
BitOr(a, b) ==
    IF a = 0 THEN b
    ELSE IF b = 0 THEN a
    ELSE (IF a % 2 = 1 \/ b % 2 = 1 THEN 1 ELSE 0) + 2 * BitOr(a \div 2, b \div 2)

\* An animations that forgets the direction the variant number holds.
animations_DropDirection(ctx) ==
    LET anim == ANIMATION_VARIANTS[ctx.variant]
        td == tile_data(ctx)
        tiling == IF td = None THEN "None" ELSE Val(td).tiling
    IN  IF td # None /\ tiling \in ANIMATION_TILINGS
        THEN Return([variant_number |-> join_variant(0, anim)])
        ELSE Raise(BadTilingVariant(ctx.tile.name, ctx.variant, tiling))
animations(ctx) ==
    LET anim == ANIMATION_VARIANTS[ctx.variant]
        dir == split_variant(FieldsGet(ctx.fields, "variant_number"))[1]
        td == tile_data(ctx)
        tiling == IF td = None THEN "None" ELSE Val(td).tiling
    IN  IF td # None /\ tiling \in ANIMATION_TILINGS
        THEN Return([variant_number |-> join_variant(dir, anim)])
        ELSE Raise(BadTilingVariant(ctx.tile.name, ctx.variant, tiling))

\* A sleep that accepts every tile that has a record.
sleep_AnyTiling(ctx) ==
    LET anim == SLEEP_VARIANTS[ctx.variant]
        dir == split_variant(FieldsGet(ctx.fields, "variant_number"))[1]
        td == tile_data(ctx)
    IN  IF td # None
        THEN Return([variant_number |-> join_variant(dir, anim)])
        ELSE Raise(BadTilingVariant(ctx.tile.name, ctx.variant, "<missing>"))
sleep(ctx) ==
    LET anim == SLEEP_VARIANTS[ctx.variant]
        dir == split_variant(FieldsGet(ctx.fields, "variant_number"))[1]
        td == tile_data(ctx)
    IN  IF td # None
        THEN IF Val(td).tiling \in SLEEP_TILINGS
             THEN Return([variant_number |-> join_variant(dir, anim)])
             ELSE Raise(BadTilingVariant(ctx.tile.name, ctx.variant, Val(td).tiling))
        ELSE Raise(BadTilingVariant(ctx.tile.name, ctx.variant, "<missing>"))

\* auto: does this call take the `else` branch that sets auto_override?
auto_first(ctx) ==
    LET td == tile_data(ctx)
    IN  /\ td # None
        /\ Val(td).tiling \in AUTO_TILINGS
        /\ ~("auto_override" \in DOMAIN ctx.extras /\ ctx.extras["auto_override"])

\* An auto that ORs its value into the variant number on every call.
auto_AlwaysOr(ctx) ==
    LET td == tile_data(ctx)
        tiling == IF td = None THEN "None" ELSE Val(td).tiling
        vn == FieldsGet(ctx.fields, "variant_number")
        num == IF vn = None THEN 0 ELSE Val(vn)
    IN  IF td # None /\ tiling \in AUTO_TILINGS
        THEN Return([variant_number |-> BitOr(num, AUTO_VARIANTS[ctx.variant])])
        ELSE Raise(BadTilingVariant(ctx.tile.name, ctx.variant, tiling))
auto(ctx) ==
    LET td == tile_data(ctx)
        tiling == IF td = None THEN "None" ELSE Val(td).tiling
    IN  IF td # None /\ tiling \in AUTO_TILINGS
        THEN IF ~auto_first(ctx)
             THEN LET vn == FieldsGet(ctx.fields, "variant_number")
                      num == IF vn = None THEN 0 ELSE Val(vn)
                  IN  Return([variant_number |->
                                 BitOr(num, AUTO_VARIANTS[ctx.variant])])
             ELSE Return([variant_number |-> AUTO_VARIANTS[ctx.variant]])
        ELSE Raise(BadTilingVariant(ctx.tile.name, ctx.variant, tiling))

\* The body of the try block of raw_variant: the exception it raises, if any.
raw_variant_check(variant, tiling) ==
    IF tiling \in AUTO_TILINGS
    THEN variant >= 47
    ELSE LET dir  == split_variant(Some(variant))[1]
             anim == split_variant(Some(variant))[2]
         IN  \/ /\ dir # 0
                /\ (tiling \notin DIRECTION_TILINGS \/ dir \notin DIRECTIONS)
             \/ /\ anim # 0
                /\ IF anim \in SLEEP_VALUES
                   THEN tiling \notin SLEEP_TILINGS
                   ELSE (tiling \notin ANIMATION_TILINGS
                         \/ anim \notin ANIMATION_VALUES)

\* A raw_variant that keeps the animation frame only and drops the direction.
raw_variant_NoDirection(ctx) ==
    LET variant == IntTokens[ctx.variant]
        td == tile_data(ctx)
    IN  IF td = None THEN Raise(VariantError("what tile is that even"))
        ELSE IF raw_variant_check(variant, Val(td).tiling)
        THEN Return([variant_number |-> -1])
        ELSE Return([variant_number |-> variant % 8])

\* raw_variant: `except BaseException` turns the BadTilingVariant of the try
\* block into variant_number -1.
raw_variant(ctx) ==
    LET variant == IntTokens[ctx.variant]
        td == tile_data(ctx)
    IN  IF td = None THEN Raise(VariantError("what tile is that even"))
        ELSE IF raw_variant_check(variant, Val(td).tiling)
        THEN Return([variant_number |-> -1])
        ELSE Return([variant_number |-> variant])

noun(ctx) ==
    LET td == tile_data(ctx)
    IN  IF ~ctx.tile.is_text THEN Raise(TileNotText(ctx.tile.name, "noun"))
        ELSE IF td # None /\ TEXT_TYPES[Val(td).text_type] = "property"
        THEN Return([style_flip |-> TRUE, custom_style |-> "noun"])
        ELSE Return([custom |-> TRUE, custom_style |-> "noun"])

\* A meta_absolute that writes the depth into the accumulator's meta_level.
meta_absolute_SetLevel(ctx) ==
    LET level == int(Val(ctx.groups[1]))
    IN  IF abs(level) > MAX_META_DEPTH
        THEN Raise(BadMetaVariant(ctx.tile.name, ctx.variant, level))
        ELSE Return([meta_level |-> level])
meta(ctx) == Return(add(ctx, "meta_level", 1))
meta_absolute(ctx) ==
    LET level == int(Val(ctx.groups[1]))
    IN  IF abs(level) > MAX_META_DEPTH
        THEN Raise(BadMetaVariant(ctx.tile.name, ctx.variant, level))
        ELSE Return(add(ctx, "meta_level", level))

reverse(ctx) == Return(add(ctx, "reverse", TRUE))

\* neon: float(ctx.groups[0] or 1.4), kept as the text of the number
neon(ctx) ==
    Return(add(ctx, "neon",
               IF ctx.groups[1] = None THEN "1.4" ELSE Val(ctx.groups[1])))

\* brightness: float(ctx.groups[0]); float("") is a ValueError
ValueError(msg) == [kind |-> "ValueError", msg |-> msg]
brightness(ctx) ==
    IF Val(ctx.groups[1]) = ""
    THEN Raise(ValueError("could not convert string to float"))
    ELSE Return([brightness |-> Val(ctx.groups[1])])

\* colselect (the first rule): slice(*[int(n) or None for n in groups])
SliceText ==
    [g \in {<<Some("1"), None, None>>, <<None, None, None>>} |->
        IF g[1] = None THEN "slice(None, None, None)" ELSE "slice(1, None, None)"]
colselect_slice(ctx) ==
    Return(add(ctx, "colselect", SliceText[ctx.groups]))

\* colselect (the second rule): [int(n) for n in groups[0].split('+')]
ListText == [g \in {"1"} |-> "[1]"]
colselect_list(ctx) ==
    Return(add(ctx, "colselect", ListText[Val(ctx.groups[1])]))

\* Handler.handle(ctx): the registered function applied to the context.
handle(handler, ctx) ==
    CASE handler = "directions"      -> directions(ctx)
      [] handler = "animations"      -> animations(ctx)
      [] handler = "sleep"           -> sleep(ctx)
      [] handler = "auto"            -> auto(ctx)
      [] handler = "meta"            -> meta(ctx)
      [] handler = "meta_absolute"   -> meta_absolute(ctx)
      [] handler = "reverse"         -> reverse(ctx)
      [] handler = "raw_variant"     -> raw_variant(ctx)
      [] handler = "noun"            -> noun(ctx)
      [] handler = "neon"            -> neon(ctx)
      [] handler = "brightness"      -> brightness(ctx)
      [] handler = "colselect_slice" -> colselect_slice(ctx)
      [] handler = "colselect_list"  -> colselect_list(ctx)

\* The extras map after the handler ran: `auto` sets auto_override the first
\* time it succeeds, no other handler of the model writes to the map.
extras_after(handler, ctx) ==
    IF handler = "auto" /\ auto_first(ctx)
    THEN FieldsUpdate(ctx.extras, [auto_override |-> TRUE])
    ELSE ctx.extras

\* VariantHandlers.handlers once setup has run, in registration order.
SetupHandlers ==
    <<"directions", "animations", "sleep", "auto", "raw_variant", "meta",
      "meta_absolute", "noun", "neon", "reverse", "brightness",
      "colselect_slice", "colselect_list">>

\* The calls of VariantHandlers.handler that setup makes: none gives `order`.
SetupLog ==
    [k \in DOMAIN SetupHandlers |-> [handler |-> SetupHandlers[k], order |-> None]]

\* Handler.hints: the documented tokens of a rule with their descriptions, in
\* the order of the dict.
hints(handler) ==
    CASE handler = "directions"      ->
            <<<<"r", "right">>, <<"u", "up">>, <<"l", "left">>, <<"d", "down">>>>
      [] handler = "animations"      -> <<<<"a0", "a0">>>>
      [] handler = "sleep"           -> <<<<"s", "sleep">>>>
      [] handler = "auto"            -> <<<<"tr", "tr">>, <<"tu", "tu">>>>
      [] handler = "meta"            -> <<<<"m", "meta / m">>>>
      [] handler = "meta_absolute"   -> <<<<"m1", "mX">>>>
      [] handler = "reverse"         -> <<<<"reverse|rev", "reverse">>>>
      [] handler = "raw_variant"     -> <<<<"0", "raw variant number">>>>
      [] handler = "noun"            -> <<<<"noun", "noun">>>>
      [] handler = "neon"            -> <<<<"neon", "neon[float]">>>>
      [] handler = "brightness"      -> <<<<"brightness", "brightness<factor>">>>>
      [] handler = "colselect_slice" -> <<<<"color", "color<start>">>>>
      [] handler = "colselect_list"  -> <<<<"color", "color<n>">>>>
\* Handler.group
group(handler) ==
    CASE handler \in {"directions", "animations", "sleep", "auto", "raw_variant"}
            -> "Alternate sprites"
      [] handler = "noun" -> "Custom text"
      [] OTHER            -> "Filters"

---------------------------------------------------------------------------
(* FullTile and the finalizer: src/src/cogs/variants.py 224-226, 359-375.  *)

\* FullTile.from_tile_fields(tile, fields): the descriptor holds the tile's
\* name and the fields; an attribute no field sets has its default.
from_tile_fields(tile, f) == [name |-> tile.name, fields |-> f]
FullCustom(full) ==
    IF "custom" \in DOMAIN full.fields THEN full.fields.custom ELSE FALSE
FullCustomStyle(full) == FieldsGet(full.fields, "custom_style")
FullFilters(full) ==
    IF "filters" \in DOMAIN full.fields THEN full.fields.filters ELSE <<>>
FullVariantNumber(full) ==
    IF "variant_number" \in DOMAIN full.fields THEN full.fields.variant_number ELSE 0
FullMetaLevel(full) ==
    IF "meta_level" \in DOMAIN full.fields THEN full.fields.meta_level ELSE 0

\* The key the finalizer appends: meta_level * "meta_" + f"{name}_{variant}"
RenderKey(full) ==
    <<"key", FullMetaLevel(full), full.name, FullVariantNumber(full)>>

\* A finalizer that appends the key of every tile.
finalize_names_Append(full, fl, names) ==
    IF names = None THEN None
    ELSE Some(Append(Val(names), RenderKey(full)))
\* finalize(tile, **flags): the extra_names list afterwards
finalize_names(full, fl, names) ==
    IF names = None THEN None
    ELSE IF Val(names) # <<>>
    THEN Some([Val(names) EXCEPT ![1] = <<"render">>])
    ELSE Some(Append(Val(names), RenderKey(full)))

\* finalize(tile, **flags): the descriptor afterwards
finalize_NoFlag(full, fl) ==
    IF FullCustom(full) /\ FullCustomStyle(full) = None
    THEN [full EXCEPT !.fields =
            FieldsUpdate(@,
                [custom_style |->
                    IF SuffixLen(full.name) = 2 THEN "letter" ELSE "noun"])]
    ELSE full
finalize(full, fl) ==
    IF FullCustom(full) /\ FullCustomStyle(full) = None
    THEN [full EXCEPT !.fields =
            FieldsUpdate(@,
                [custom_style |->
                    IF SuffixLen(full.name) = 2 /\ "default_to_letters" \in fl
                    THEN "letter" ELSE "noun"])]
    ELSE full

---------------------------------------------------------------------------
(* VariantHandlers.handler: src/src/cogs/variants.py 86-120.               *)

\* list.insert(index, x) for index >= 0: x goes before the element at the
\* 0-based index, at the end when the list is shorter.
insert(list, index, x) ==
    LET i == IF index > Len(list) THEN Len(list) ELSE index
    IN  SubSeq(list, 1, i) \o <<x>> \o SubSeq(list, i + 1, Len(list))

\* A registration that ignores `order`.
deco_Append(list, h, order) == Append(list, h)
\* deco, lines 113-118: the list of rules after the rule h is registered.
deco(list, h, order) ==
    IF order = None THEN Append(list, h) ELSE insert(list, Val(order), h)

---------------------------------------------------------------------------
(* handle_grid and handle_tile: src/src/cogs/variants.py 185-251.          *)

CurCell == Cells(grid)[pos]
CurTile == TileAt(grid, CurCell)
CurVariant == CurTile.variants[vi]

\* `for handler in reversed(self.handlers)`: the next list position at or
\* below `from` whose pattern matches the token, 0 when the scan is over.
NextMatch(from, variant) ==
    LET M == {i \in 1 .. from : match(handlers[i], variant) # None}
    IN  IF M = {} THEN 0 ELSE CHOOSE i \in M : \A j \in M : j <= i

\* The scan of a token starts at the end of the list; after the last token
\* comes the finalizer.
StartScan(tile, k) ==
    IF k > Len(tile.variants)
    THEN /\ pc' = "finalize"
         /\ UNCHANGED <<hi, failed, applied>>
    ELSE /\ pc' = "scan"
         /\ hi' = Len(handlers)
         /\ failed' = TRUE
         /\ applied' = <<>>

\* bot.db.tiles(names): the records the store has for the names, by name.
tiles(store, names) ==
    [n \in {m \in names : store[m] # None} |-> Val(store[n])]

\* A fetch that asks for the name of the first cell only.
FetchTileData_FirstCell ==
    /\ pc = "fetch"
    /\ fetched' = Append(fetched, {TileAt(grid, Cells(grid)[1]).name})
    /\ tile_data_cache' = Some(tiles(db, {TileAt(grid, Cells(grid)[1]).name}))
    /\ pos' = 1
    /\ pc' = "default"
    /\ UNCHANGED <<cvars, vvars, registered, tiling_variants, handlers, grid, db, flags, fields, extras, vi,
                   hi, failed, applied, out, extra_names, result, error>>

\* handle_grid, lines 230-237: the batch fetch of the records of the grid's
\* names, awaited before the comprehension starts.
FetchTileData ==
    /\ pc = "fetch"
    /\ fetched' = Append(fetched, GridNames(grid))
    /\ tile_data_cache' = Some(tiles(db, GridNames(grid)))
    /\ pos' = 1
    /\ pc' = "default"
    /\ UNCHANGED <<cvars, vvars, registered, tiling_variants, handlers, grid, db, flags, fields, extras, vi,
                   hi, failed, applied, out, extra_names, result, error>>

\* A handle_tile that keeps the extras map of the tile resolved before.
HandleTileDefault_KeepExtras ==
    /\ pc = "default"
    /\ LET r == default(DefaultContext(CurTile, grid, IndexOf(CurCell),
                                       Val(tile_data_cache), flags))
       IN  IF r.raised
           THEN /\ pc' = "raised"
                /\ error' = Some(r.exc)
                /\ vi' = 0
                /\ UNCHANGED <<fields, extras, hi, failed, applied>>
           ELSE /\ fields' = r.value
                /\ extras' = extras
                /\ vi' = 1
                /\ StartScan(CurTile, 1)
                /\ UNCHANGED error
    /\ UNCHANGED <<cvars, vvars, registered, tiling_variants, fetched, handlers, grid, db,
                   flags, tile_data_cache, pos, out, extra_names, result>>

\* handle_tile, lines 193-202: the default factory gives the accumulator.
HandleTileDefault ==
    /\ pc = "default"
    /\ LET r == default(DefaultContext(CurTile, grid, IndexOf(CurCell),
                                       Val(tile_data_cache), flags))
       IN  IF r.raised
           THEN /\ pc' = "raised"
                /\ error' = Some(r.exc)
                /\ vi' = 0
                /\ UNCHANGED <<fields, extras, hi, failed, applied>>
           ELSE /\ fields' = r.value
                /\ extras' = EmptyFields
                /\ vi' = 1
                /\ StartScan(CurTile, 1)
                /\ UNCHANGED error
    /\ UNCHANGED <<cvars, vvars, registered, tiling_variants, fetched, handlers, grid, db, flags, tile_data_cache, pos, out,
                   extra_names, result>>

\* handle_tile, lines 205-221: the scan reaches a handler that matches the
\* token, clears `failed`, calls it and merges what it returns.
HandleTileApply ==
    /\ pc = "scan"
    /\ NextMatch(hi, CurVariant) > 0
    /\ LET j == NextMatch(hi, CurVariant)
           ctx == HandlerContext(CurTile, grid, IndexOf(CurCell),
                                 Val(tile_data_cache), flags, fields, CurVariant,
                                 Val(match(handlers[j], CurVariant)), extras)
           r == handle(handlers[j], ctx)
       IN  /\ failed' = FALSE
           /\ IF r.raised
              THEN /\ pc' = "raised"
                   /\ error' = Some(r.exc)
                   /\ UNCHANGED <<fields, extras, hi, applied>>
              ELSE /\ fields' = FieldsUpdate(fields, r.value)
                   /\ extras' = extras_after(handlers[j], ctx)
                   /\ hi' = j - 1
                   /\ applied' = Append(applied,
                          [handler |-> handlers[j], position |-> j,
                           value |-> r.value])
                   /\ UNCHANGED <<pc, error>>
    /\ UNCHANGED <<cvars, vvars, registered, tiling_variants, fetched, handlers, grid, db, flags, tile_data_cache, pos, vi,
                   out, extra_names, result>>

\* handle_tile, lines 203-222: the scan of the list is over and some handler
\* matched: on to the next token.
HandleTileNextVariant ==
    /\ pc = "scan"
    /\ NextMatch(hi, CurVariant) = 0
    /\ ~failed
    /\ vi' = vi + 1
    /\ StartScan(CurTile, vi + 1)
    /\ UNCHANGED <<cvars, vvars, registered, tiling_variants, fetched, handlers, grid, db, flags, tile_data_cache, pos,
                   fields, extras, out, extra_names, result, error>>

\* A handle_tile that goes on to the next token when no handler matched.
HandleTileUnknown_Skip ==
    /\ pc = "scan"
    /\ NextMatch(hi, CurVariant) = 0
    /\ failed
    /\ vi' = vi + 1
    /\ StartScan(CurTile, vi + 1)
    /\ UNCHANGED <<cvars, vvars, registered, tiling_variants, fetched, handlers, grid, db, flags, tile_data_cache, pos,
                   fields, extras, out, extra_names, result, error>>

\* handle_tile, lines 222-223: no handler matched the token.
HandleTileUnknown ==
    /\ pc = "scan"
    /\ NextMatch(hi, CurVariant) = 0
    /\ failed
    /\ pc' = "raised"
    /\ error' = Some(UnknownVariant(CurTile, CurVariant))
    /\ UNCHANGED <<cvars, vvars, registered, tiling_variants, fetched, handlers, grid, db, flags, tile_data_cache, pos,
                   fields, extras, vi, hi, failed, applied, out, extra_names,
                   result>>

\* A handle_tile that runs the finalizer twice on the descriptor.
HandleTileFinalize_Twice ==
    /\ pc = "finalize"
    /\ LET full == from_tile_fields(CurTile, fields)
       IN  /\ out' = Append(out, finalize(finalize(full, flags), flags))
           /\ extra_names' =
                finalize_names(full, flags, finalize_names(full, flags, extra_names))
    /\ IF pos = Len(Cells(grid))
       THEN /\ pc' = "returned"
            /\ result' = Some(out')
            /\ UNCHANGED pos
       ELSE /\ pc' = "default"
            /\ pos' = pos + 1
            /\ UNCHANGED result
    /\ UNCHANGED <<cvars, vvars, registered, tiling_variants, fetched, handlers, grid, db, flags,
                   tile_data_cache, fields, extras, vi, hi, failed, applied, error>>

\* handle_tile, lines 224-226, and the comprehension of handle_grid: the
\* descriptor is built and finalized; after the last cell handle_grid returns.
HandleTileFinalize ==
    /\ pc = "finalize"
    /\ LET full == from_tile_fields(CurTile, fields)
       IN  /\ out' = Append(out, finalize(full, flags))
           /\ extra_names' = finalize_names(full, flags, extra_names)
    /\ IF pos = Len(Cells(grid))
       THEN /\ pc' = "returned"
            /\ result' = Some(out')
            /\ UNCHANGED pos
       ELSE /\ pc' = "default"
            /\ pos' = pos + 1
            /\ UNCHANGED result
    /\ UNCHANGED <<cvars, vvars, registered, tiling_variants, fetched, handlers, grid, db, flags, tile_data_cache, fields,
                   extras, vi, hi, failed, applied, error>>

---------------------------------------------------------------------------
(* valid_variants: src/src/cogs/variants.py 150-183.                       *)

\* A mock context that hands every probe the extras map the probe before it
\* left behind.
mock_ctx_SharedExtras(tile, cache, variant, groups) ==
    HandlerContext(tile, << << <<tile>> >> >>, <<0, 0>>, cache,
                   {"disallow_custom_directions"}, EmptyFields, variant, groups,
                   IF vctx = <<>> THEN EmptyFields
                   ELSE extras_after(vctx[Len(vctx)].handler,
                                     vctx[Len(vctx)].ctx))

\* Lines 166-177: the mock context of a probe, with a grid of the tile alone,
\* an empty accumulator, an empty extras map and one flag.
mock_ctx(tile, cache, variant, groups) ==
    HandlerContext(tile, << << <<tile>> >> >>, <<0, 0>>, cache,
                   {"disallow_custom_directions"}, EmptyFields, variant, groups,
                   EmptyFields)

\* An except clause that catches every exception.
swallowed_All(exc) == TRUE

\* Line 179: `except errors.VariantError` catches the class and its subclasses.
swallowed(exc) == exc.kind \in VariantErrorKinds

\* out.setdefault(handler.group, []).append(repr)
setdefault_append(o, g, repr) ==
    IF g \in DOMAIN o
    THEN [o EXCEPT ![g] = Append(@, repr)]
    ELSE FieldsUpdate(o, [k \in {g} |-> <<repr>>])

\* A valid_variants that leaves out a documented token that does not match
\* the pattern of its rule.
ValidVariantsProbe_SkipUnmatched ==
    /\ vpc = "probe"
    /\ LET h == handlers[vh]
           variant == hints(h)[vk][1]
           repr == hints(h)[vk][2]
           groups == match(h, variant)
           ctx == mock_ctx(vtile, vcache, variant, Val(groups))
           r == IF groups = None THEN Return(EmptyFields) ELSE handle(h, ctx)
           last == vh = Len(handlers) /\ vk = Len(hints(h))
       IN  /\ vctx' = IF groups = None THEN vctx
                      ELSE Append(vctx, [handler |-> h, ctx |-> ctx])
           /\ IF r.raised /\ ~swallowed(r.exc)
              THEN /\ vpc' = "raised"
                   /\ verror' = Some(r.exc)
                   /\ UNCHANGED <<vh, vk, vout>>
              ELSE /\ vout' = IF r.raised \/ groups = None THEN vout
                              ELSE setdefault_append(vout, group(h), repr)
                   /\ vpc' = IF last THEN "returned" ELSE "probe"
                   /\ vh' = IF vk = Len(hints(h)) /\ ~last THEN vh + 1 ELSE vh
                   /\ vk' = IF last THEN vk
                            ELSE IF vk = Len(hints(h)) THEN 1 ELSE vk + 1
                   /\ UNCHANGED verror
    /\ UNCHANGED <<cvars, evars, vtile, vcache>>

\* The probe of one documented token of one rule (lines 162-182), and the
\* return of line 183 after the last one.
ValidVariantsProbe ==
    /\ vpc = "probe"
    /\ LET h == handlers[vh]
           variant == hints(h)[vk][1]
           repr == hints(h)[vk][2]
           groups == match(h, variant)
           ctx == mock_ctx(vtile, vcache, variant, Val(groups))
           r == IF groups = None THEN Return(EmptyFields) ELSE handle(h, ctx)
           last == vh = Len(handlers) /\ vk = Len(hints(h))
       IN  /\ vctx' = IF groups = None THEN vctx
                      ELSE Append(vctx, [handler |-> h, ctx |-> ctx])
           /\ IF r.raised /\ ~swallowed(r.exc)
              THEN /\ vpc' = "raised"
                   /\ verror' = Some(r.exc)
                   /\ UNCHANGED <<vh, vk, vout>>
              ELSE /\ vout' = IF r.raised THEN vout
                              ELSE setdefault_append(vout, group(h), repr)
                   /\ vpc' = IF last THEN "returned" ELSE "probe"
                   /\ vh' = IF vk = Len(hints(h)) /\ ~last THEN vh + 1 ELSE vh
                   /\ vk' = IF last THEN vk
                            ELSE IF vk = Len(hints(h)) THEN 1 ELSE vk + 1
                   /\ UNCHANGED verror
    /\ UNCHANGED <<cvars, evars, vtile, vcache>>

---------------------------------------------------------------------------
(* The codec harness.                                                      *)

CodecJoin ==
    /\ cpc = "input"
    /\ cjoined = None
    /\ cjoined' = Some(join_variant(cdir, canim))
    /\ UNCHANGED <<cpc, cdir, canim, cvariant, cround, csplit,
                   ctiling, cdirfirst, cframefirst, evars, vvars>>

CodecSplitJoined ==
    /\ cpc = "input"
    /\ cjoined # None
    /\ cround = None
    /\ cround' = Some(split_variant(cjoined))
    /\ UNCHANGED <<cpc, cdir, canim, cvariant, cjoined, csplit,
                   ctiling, cdirfirst, cframefirst, evars, vvars>>

CodecSplit ==
    /\ cpc = "input"
    /\ csplit = None
    /\ csplit' = Some(split_variant(cvariant))
    /\ UNCHANGED <<cpc, cdir, canim, cvariant, cjoined, cround,
                   ctiling, cdirfirst, cframefirst, evars, vvars>>

\* The token of the direction d and the token and the rule of the frame a;
\* the frames 4..6 have no token.
DirectionToken(d) ==
    CASE d = 0 -> "r" [] d = 8 -> "u" [] d = 16 -> "l" [] d = 24 -> "d"
FrameTokenOf(a) ==
    CASE a = -1 -> "s" [] a = 0 -> "a0" [] a = 1 -> "a1" [] a = 2 -> "a2"
      [] a = 3 -> "a3"
FrameRule(a) == IF a = -1 THEN "sleep" ELSE "animations"
TokenFrames == SLEEP_VALUES \cup ANIMATION_VALUES

\* The variant numbers a tile of the tiling category has after each of the
\* tokens, applied in order by their rules to an accumulator that starts with
\* the variant number v (None: absent); cut short at the first rule that
\* raises.
RECURSIVE AfterTokens(_, _, _, _)
AfterTokens(rules, tokens, tiling, f) ==
    IF rules = <<>> THEN <<>>
    ELSE LET tile == RawTile("baba", tokens)
             ctx == HandlerContext(tile, RowGrid(<<tile>>), <<0, 0, 0, 0>>,
                        [n \in {"baba"} |-> TileData("baba", tiling, "0")],
                        {}, f, Head(tokens), <<>>, EmptyFields)
             r == handle(Head(rules), ctx)
         IN  IF r.raised THEN <<>>
             ELSE LET g == FieldsUpdate(f, r.value)
                  IN  <<FieldsGet(g, "variant_number")>> \o
                      AfterTokens(Tail(rules), Tail(tokens), tiling, g)
StartFields(v) == IF v = None THEN EmptyFields ELSE [variant_number |-> Val(v)]

CodecDirectionThenFrame ==
    /\ cpc = "input"
    /\ cdirfirst = None
    /\ canim \in TokenFrames
    /\ cdirfirst' = Some(AfterTokens(<<"directions", FrameRule(canim)>>,
                            <<DirectionToken(cdir), FrameTokenOf(canim)>>,
                            ctiling, StartFields(cvariant)))
    /\ UNCHANGED <<cpc, cdir, canim, cvariant, cjoined, cround, csplit,
                   ctiling, cframefirst, evars, vvars>>

CodecFrameThenDirection ==
    /\ cpc = "input"
    /\ cframefirst = None
    /\ canim \in TokenFrames
    /\ cframefirst' = Some(AfterTokens(<<FrameRule(canim), "directions">>,
                              <<FrameTokenOf(canim), DirectionToken(cdir)>>,
                              ctiling, StartFields(cvariant)))
    /\ UNCHANGED <<cpc, cdir, canim, cvariant, cjoined, cround, csplit,
                   ctiling, cdirfirst, evars, vvars>>

---------------------------------------------------------------------------
(* Specifications.                                                         *)

CodecOff ==
    /\ cpc = "off"
    /\ cdir = 0
    /\ canim = 0
    /\ cvariant = None
    /\ cjoined = None
    /\ cround = None
    /\ csplit = None
    /\ ctiling = "-1"
    /\ cdirfirst = None
    /\ cframefirst = None

ProbeOff ==
    /\ vpc = "off"
    /\ vtile = RawTile("-", <<>>)
    /\ vcache = EmptyFields
    /\ vh = 0
    /\ vk = 0
    /\ vout = EmptyFields
    /\ vctx = <<>>
    /\ verror = None

EngineStart(g, store, fl, names) ==
    /\ pc = "fetch"
    /\ handlers = SetupHandlers
    /\ grid = g
    /\ db = store
    /\ flags = fl
    /\ tile_data_cache = None
    /\ pos = 0
    /\ fields = EmptyFields
    /\ extras = EmptyFields
    /\ vi = 0
    /\ hi = 0
    /\ failed = FALSE
    /\ applied = <<>>
    /\ out = <<>>
    /\ extra_names = names
    /\ result = None
    /\ error = None
    /\ fetched = <<>>
    /\ registered = SetupLog

Init ==
    /\ CodecOff
    /\ ProbeOff
    /\ \/ /\ tiling_variants = "full"
          /\ \E ts \in OneCellRows, fl \in SUBSET FlagNames :
                \E store \in InputStores(ts) :
                    EngineStart(RowGrid(ts), store, fl, None)
       \/ /\ tiling_variants = "full"
          /\ \E ts \in ManyCellRows, names \in {None, Some(<<>>)} :
                \E store \in InputStores(ts) :
                    EngineStart(RowGrid(ts), store, {}, names)
       \/ /\ tiling_variants \in TilingTables
          /\ \E g \in WallGrids \cup JoiningGrids, fl \in SUBSET TilingFlags :
                EngineStart(g, FullStore, fl, None)
       \/ /\ tiling_variants = "full"
          /\ \E ts \in AutoRows, store \in {NoStore, FullStore},
                names \in {None, Some(<<>>)} :
                EngineStart(RowGrid(ts), store, {}, names)
       \/ /\ tiling_variants = "full"
          /\ \E ts \in LetterRows, fl \in SUBSET LetterFlags :
                \E store \in InputStores(ts) :
                    EngineStart(RowGrid(ts), store, fl, None)
       \/ /\ tiling_variants = "full"
          /\ \E g \in AxisGrids, fl \in SUBSET TilingFlags :
                EngineStart(g, FullStore, fl, None)
       \/ /\ tiling_variants = "full"
          /\ \E ts \in FrameRows : \E store \in InputStores(ts) :
                EngineStart(RowGrid(ts), store, {}, None)
       \/ /\ tiling_variants = "full"
          /\ \E ts \in MetaRows, store \in {NoStore, FullStore} :
                EngineStart(RowGrid(ts), store, {}, None)

Next ==
    \/ FetchTileData
    \/ HandleTileDefault
    \/ HandleTileApply
    \/ HandleTileNextVariant
    \/ HandleTileUnknown
    \/ HandleTileFinalize

Spec == Init /\ [][Next]_vars

InitCodec ==
    /\ cpc = "input"
    /\ cdir \in CodecDirections
    /\ canim \in CodecAnimations
    /\ cvariant \in CodecVariants
    /\ cjoined = None
    /\ cround = None
    /\ csplit = None
    /\ ctiling \in Tilings
    /\ cdirfirst = None
    /\ cframefirst = None
    /\ pc = "off"
    /\ handlers = SetupHandlers
    /\ grid = <<>>
    /\ db = NoStore
    /\ flags = {}
    /\ tile_data_cache = None
    /\ pos = 0
    /\ fields = EmptyFields
    /\ extras = EmptyFields
    /\ vi = 0
    /\ hi = 0
    /\ failed = FALSE
    /\ applied = <<>>
    /\ out = <<>>
    /\ extra_names = None
    /\ result = None
    /\ error = None
    /\ tiling_variants = "full"
    /\ fetched = <<>>
    /\ registered = SetupLog
    /\ ProbeOff

\* A registry built by calls of handler() with and without `order`, then
\* used to resolve one tile.  The rules overlap on the token "c1".
MaxOrder == 2
RegisterRules == {"colselect_slice", "colselect_list", "neon"}
Orders == {None} \cup {Some(k) : k \in 0 .. MaxOrder}
RegisterRows == RowsOver({"baba"}, {"c1", "neon"}, 1, MaxTokens)

InitRegister ==
    /\ CodecOff
    /\ ProbeOff
    /\ tiling_variants = "full"
    /\ pc = "setup"
    /\ handlers = <<>>
    /\ registered = <<>>
    /\ \E ts \in RegisterRows : grid = RowGrid(ts)
    /\ db = FullStore
    /\ flags = {}
    /\ tile_data_cache = None
    /\ pos = 0
    /\ fields = EmptyFields
    /\ extras = EmptyFields
    /\ vi = 0
    /\ hi = 0
    /\ failed = FALSE
    /\ applied = <<>>
    /\ out = <<>>
    /\ extra_names = None
    /\ result = None
    /\ error = None
    /\ fetched = <<>>

\* @handlers.handler(pattern=..., order=...): one rule is registered.
RegisterHandler ==
    /\ pc = "setup"
    /\ \E h \in RegisterRules, order \in Orders :
          /\ \A i \in DOMAIN handlers : handlers[i] # h
          /\ handlers' = deco(handlers, h, order)
          /\ registered' = Append(registered, [handler |-> h, order |-> order])
    /\ UNCHANGED <<cvars, vvars, pc, grid, db, flags, tile_data_cache, pos,
                   fields, extras, vi, hi, failed, applied, out, extra_names,
                   result, error, tiling_variants, fetched>>

\* setup returns and handle_grid is called with the registry it built.
SetupDone ==
    /\ pc = "setup"
    /\ pc' = "fetch"
    /\ UNCHANGED <<cvars, vvars, handlers, registered, grid, db, flags,
                   tile_data_cache, pos, fields, extras, vi, hi, failed,
                   applied, out, extra_names, result, error, tiling_variants,
                   fetched>>

NextRegister ==
    \/ RegisterHandler
    \/ SetupDone
    \/ Next

SpecRegister == InitRegister /\ [][NextRegister]_vars

NextCodec ==
    \/ CodecJoin
    \/ CodecSplitJoined
    \/ CodecSplit
    \/ CodecDirectionThenFrame
    \/ CodecFrameThenDirection

SpecCodec == InitCodec /\ [][NextCodec]_vars

EngineOff ==
    /\ pc = "off"
    /\ handlers = SetupHandlers
    /\ grid = <<>>
    /\ db = NoStore
    /\ flags = {}
    /\ tile_data_cache = None
    /\ pos = 0
    /\ fields = EmptyFields
    /\ extras = EmptyFields
    /\ vi = 0
    /\ hi = 0
    /\ failed = FALSE
    /\ applied = <<>>
    /\ out = <<>>
    /\ extra_names = None
    /\ result = None
    /\ error = None
    /\ tiling_variants = "full"
    /\ fetched = <<>>
    /\ registered = SetupLog

\* valid_variants is called with a tile and a cache that holds a record of
\* the tile or none.
ProbeCaches(name) ==
    {EmptyFields} \cup
    {[n \in {name} |-> r] : r \in RecordsFor(name) \cup
        {Val(FullStore[m]) : m \in {k \in {name} : FullStore[k] # None}}}
InitProbe ==
    /\ CodecOff
    /\ EngineOff
    /\ vpc = "probe"
    /\ \E n \in AllNames :
          /\ vtile = RawTile(n, <<>>)
          /\ vcache \in ProbeCaches(n)
    /\ vh = 1
    /\ vk = 1
    /\ vout = EmptyFields
    /\ vctx = <<>>
    /\ verror = None

NextProbe == ValidVariantsProbe

SpecProbe == InitProbe /\ [][NextProbe]_vars

\* Every operation of the registry: a call of handle_grid or a call of
\* valid_variants.
InitAll == Init \/ InitProbe
NextAll == Next \/ NextProbe
SpecAll == InitAll /\ [][NextAll]_vars

---------------------------------------------------------------------------
(* Properties.                                                             *)

Terminated == pc \in {"returned", "raised"}
FiltersOf(f) == IF "filters" \in DOMAIN f THEN f.filters ELSE <<>>
IsPrefix(a, b) == Len(a) <= Len(b) /\ \A i \in 1 .. Len(a) : a[i] = b[i]
\* The scan of the current token is over and some handler matched it.
TokenDone == pc = "scan" /\ NextMatch(hi, CurVariant) = 0 /\ ~failed
\* No registered rule fully matches the token.
Unmatched(variant) ==
    \A i \in 1 .. Len(handlers) : match(handlers[i], variant) = None
RecordOf(tile) == db[tile.name]

\* C1: for every direction in {0,8,16,24} and animation in {-1,0..6},
\* split_variant(join_variant(direction, animation)) is (direction, animation).
C1_RoundTrip ==
    cround # None => Val(cround) = <<cdir, canim>>
\* The sleep frame of direction 0 went through join (as 31) and split.
C1_Witness ==
    /\ cround # None
    /\ cdir = 0
    /\ canim = -1
    /\ cjoined = Some(31)

\* C2 as stated: join_variant returns (direction + animation) mod 32, in
\* 0..31, and join_variant(24, 6) is 6.
C2_Original ==
    cjoined # None =>
        /\ Val(cjoined) \in 0 .. 31
        /\ \E q \in -1 .. 0 : Val(cjoined) = cdir + canim - 32 * q
        /\ (cdir = 24 /\ canim = 6) => Val(cjoined) = 6
\* C2 amended: join_variant returns (direction + animation) mod 32, in 0..31:
\* the sum itself, except that join_variant(0, -1) wraps to 31; and
\* join_variant(24, 6) is 30.
C2_Join ==
    cjoined # None =>
        /\ Val(cjoined) \in 0 .. 31
        /\ Val(cjoined) = IF cdir + canim < 0 THEN cdir + canim + 32
                          ELSE cdir + canim
        /\ (cdir = 24 /\ canim = 6) => Val(cjoined) = 30
        /\ (cdir = 0 /\ canim = -1) => Val(cjoined) = 31
C2_Witness ==
    /\ cjoined # None
    /\ cdir = 24
    /\ canim = 6

\* C3: split_variant(None) is (0, 0); for v in 0..31 with v = 8q + r,
\* 0 <= r < 8, split_variant(v) is (8q, r) when r is not 7 and
\* (8 * ((q + 1) mod 4), -1) when r is 7; the direction is in {0,8,16,24}
\* and the animation in {-1,0..6}.
C3_Split ==
    csplit # None =>
        /\ cvariant = None => Val(csplit) = <<0, 0>>
        /\ cvariant # None =>
              \E q \in 0 .. 3, r \in 0 .. 7 :
                  /\ Val(cvariant) = 8 * q + r
                  /\ r # 7 => Val(csplit) = <<8 * q, r>>
                  /\ r = 7 => Val(csplit) = <<IF q = 3 THEN 0 ELSE 8 * (q + 1), -1>>
        /\ Val(csplit)[1] \in {0, 8, 16, 24}
        /\ Val(csplit)[2] \in -1 .. 6
\* Variant 31 was split: the sleep frame that wraps to direction 0.
C3_Witness ==
    /\ csplit = Some(<<0, -1>>)
    /\ cvariant = Some(31)

\* C4 as stated: for each token exactly one transform is invoked, that of
\* the most recently registered rule whose pattern fully matches.
C4_OneTransformPerToken ==
    TokenDone =>
        /\ Len(applied) = 1
        /\ \A i \in 1 .. Len(handlers) :
              match(handlers[i], CurVariant) # None => i <= applied[1].position

\* C5 as stated: when two rules match a token and set the same attribute, the
\* attribute has the value produced by the rule registered more recently.
C5_LastRegisteredWins ==
    (TokenDone /\ Len(applied) >= 2) =>
        \A k \in DOMAIN applied[1].value :
            (\E n \in 2 .. Len(applied) : k \in DOMAIN applied[n].value)
                => fields[k] = applied[1].value[k]

\* The cells, in resolution order, whose tile carries a token no rule matches.
UnknownCells ==
    {n \in 1 .. Len(Cells(grid)) :
        \E k \in 1 .. Len(TileAt(grid, Cells(grid)[n]).variants) :
            Unmatched(TileAt(grid, Cells(grid)[n]).variants[k])}
FirstUnknownCell == CHOOSE n \in UnknownCells : \A m \in UnknownCells : n <= m
FirstUnknownToken ==
    LET vs == TileAt(grid, Cells(grid)[FirstUnknownCell]).variants
        U == {k \in 1 .. Len(vs) : Unmatched(vs[k])}
    IN  CHOOSE k \in U : \A j \in U : k <= j

\* C6 as stated: if any tile carries a token that no registered rule fully
\* matches, resolution raises UnknownVariant for that tile and token, and
\* handle_grid returns no descriptor.
C6_Original ==
    (Terminated /\ UnknownCells # {}) =>
        /\ pc = "raised"
        /\ result = None
        /\ \E n \in UnknownCells :
              \E k \in 1 .. Len(TileAt(grid, Cells(grid)[n]).variants) :
                  LET tile == TileAt(grid, Cells(grid)[n])
                  IN  /\ Unmatched(tile.variants[k])
                      /\ error = Some(UnknownVariant(tile, tile.variants[k]))
\* C6 amended: if any tile carries a token that no registered rule fully
\* matches, handle_grid raises and returns no descriptor for any tile; the
\* failure happens at the first such token in resolution order or before it;
\* it is UnknownVariant for that tile and token when resolution gets that
\* far, and the exception of the default factory or of a rule (TileNotFound,
\* TileNotText, ...) that raised before it otherwise.
C6_UnknownAborts ==
    (Terminated /\ UnknownCells # {}) =>
        /\ pc = "raised"
        /\ result = None
        /\ error # None
        /\ pos < FirstUnknownCell
           \/ (pos = FirstUnknownCell /\ vi <= FirstUnknownToken)
        /\ (pos = FirstUnknownCell /\ vi = FirstUnknownToken)
              => error = Some(UnknownVariant(CurTile, CurVariant))
        /\ Val(error).kind = "UnknownVariant"
              => (pos = FirstUnknownCell /\ vi = FirstUnknownToken)
\* The second tile fails on an unknown token after the first was resolved.
C6_Witness ==
    /\ pc = "raised"
    /\ Len(out) >= 1
    /\ result = None
    /\ Val(error).kind = "UnknownVariant"
    /\ Unmatched(Val(error).variant)

FilterTokens == {"neon", "neon2.0", "c1"}
FilterOfToken(variant) == IF variant = "c1" THEN "colselect" ELSE "neon"

\* C7 as stated: a tile whose tokens are all filter-style tokens resolves to
\* a filters list with exactly one entry per token, in token order.
C7_OneEntryPerToken ==
    \A n \in 1 .. Len(out) :
        LET tile == TileAt(grid, Cells(grid)[n])
        IN  (\A k \in 1 .. Len(tile.variants) : tile.variants[k] \in FilterTokens)
            => /\ Len(FullFilters(out[n])) = Len(tile.variants)
               /\ \A k \in 1 .. Len(tile.variants) :
                     FullFilters(out[n])[k][1] = FilterOfToken(tile.variants[k])

\* C8: during the resolution of one tile the filters list only grows: after
\* every rule application the previous list is a prefix of the new one, a
\* rule that returns filters adds exactly one entry (a single-entry list when
\* there was none), and the descriptor gets the list as accumulated.
C8_FiltersOnlyGrow ==
    [][/\ pc = "scan" =>
            /\ IsPrefix(FiltersOf(fields), FiltersOf(fields'))
            /\ (Len(applied') > Len(applied)
                /\ "filters" \in DOMAIN applied'[Len(applied')].value)
                  => Len(FiltersOf(fields')) = Len(FiltersOf(fields)) + 1
       /\ pc = "finalize" =>
            FullFilters(out'[Len(out')]) = FiltersOf(fields)]_vars
\* A scalar token (raw variant, direction, noun) was applied as the second
\* token, after a filter token had put an entry in the list.
C8_Witness ==
    /\ pc = "scan"
    /\ vi = 2
    /\ Len(applied) = 1
    /\ applied[1].handler \in {"raw_variant", "directions", "noun"}
    /\ Len(FiltersOf(fields)) >= 1

DirectionTokens == DOMAIN DIRECTION_VARIANTS
\* The current tile has a static record whose tiling supports no directions.
NoDirectionTiling ==
    /\ RecordOf(CurTile) # None
    /\ Val(RecordOf(CurTile)).tiling \notin DIRECTION_TILINGS
\* The exception in flight was raised by `directions`.
DirectionsRaised ==
    /\ pc = "raised"
    /\ Val(error).kind = "BadTilingVariant"
    /\ Val(error).variant \in DirectionTokens
\* `directions` was the last handler applied, and it returned.
DirectionsReturned ==
    /\ pc = "scan"
    /\ applied # <<>>
    /\ applied[Len(applied)].handler = "directions"

\* C9 as stated: a direction token on a tile whose tiling category supports
\* no directions, with no override flag set, fails with BadTilingVariant
\* carrying the tile, the token and the tile's tiling category.
C9_Original ==
    /\ (DirectionsReturned /\ NoDirectionTiling)
          => "ignore_bad_directions" \in flags
    /\ (DirectionsRaised /\ NoDirectionTiling)
          => error = Some(BadTilingVariant(CurTile.name, CurVariant,
                                           Val(RecordOf(CurTile)).tiling))
\* C9 amended: a direction token on a tile whose tiling category supports no
\* directions fails only when the disallow_custom_directions flag is set,
\* ignore_bad_directions is not and the tile is not a text tile, and then
\* with a BadTilingVariant carrying the tile, the token and "<missing>" in
\* place of the tiling category; otherwise the token is accepted: with
\* ignore_bad_directions it changes nothing, else it sets custom_direction
\* only.
C9_Directions ==
    /\ DirectionsRaised =>
          /\ "disallow_custom_directions" \in flags
          /\ "ignore_bad_directions" \notin flags
          /\ ~CurTile.is_text
          /\ RecordOf(CurTile) # None
                => Val(RecordOf(CurTile)).tiling \notin DIRECTION_TILINGS
          /\ error = Some(BadTilingVariant(CurTile.name, CurVariant, "<missing>"))
    /\ (DirectionsReturned /\ NoDirectionTiling) =>
          IF "ignore_bad_directions" \in flags
          THEN applied[Len(applied)].value = EmptyFields
          ELSE /\ "disallow_custom_directions" \notin flags \/ CurTile.is_text
               /\ applied[Len(applied)].value =
                     [custom_direction |-> DIRECTION_VARIANTS[CurVariant]]
\* `directions` raised on a tile that has a record with an unfit tiling.
C9_Witness ==
    /\ DirectionsRaised
    /\ NoDirectionTiling

\* The descriptor of cell n, or the failure of the resolution, for a
\* one-cell grid whose tile carries the tokens ["8", "noun"] and has a record
\* with a direction-supporting tiling.
EightNounTile(tile) ==
    /\ tile.variants = <<"8", "noun">>
    /\ RecordOf(tile) # None
    /\ Val(RecordOf(tile)).tiling \in DIRECTION_TILINGS
EightNounResolved(full) ==
    /\ FullFilters(full) = <<>>
    /\ FullVariantNumber(full) = 8
    /\ FullCustomStyle(full) = Some("noun")

\* C10 as stated: the tokens ["8", "noun"] on a tile whose tiling category
\* supports directions resolve, to a descriptor with no filters,
\* variant_number 8 and custom_style "noun".
C10_Original ==
    (Terminated /\ Len(Cells(grid)) = 1 /\ EightNounTile(TileAt(grid, Cells(grid)[1])))
        => /\ pc = "returned"
           /\ EightNounResolved(Val(result)[1])
\* C10 amended: the tokens ["8", "noun"] on a text tile whose tiling category
\* supports directions resolve, to a descriptor with no filters,
\* variant_number 8 and custom_style "noun"; on a tile that is not text the
\* resolution fails with TileNotText.
C10_EightNoun ==
    (Terminated /\ Len(Cells(grid)) = 1 /\ EightNounTile(TileAt(grid, Cells(grid)[1])))
        => IF TileAt(grid, Cells(grid)[1]).is_text
           THEN /\ pc = "returned"
                /\ EightNounResolved(Val(result)[1])
           ELSE /\ pc = "raised"
                /\ error = Some(TileNotText(TileAt(grid, Cells(grid)[1]).name, "noun"))
C10_Witness ==
    /\ pc = "returned"
    /\ Len(Cells(grid)) = 1
    /\ EightNounTile(TileAt(grid, Cells(grid)[1]))
    /\ TileAt(grid, Cells(grid)[1]).is_text
    /\ EightNounResolved(Val(result)[1])

---------------------------------------------------------------------------
(* The default factory and adjacency.                                      *)

\* The context of the default factory for the cell c.
ContextOf(c) ==
    DefaultContext(TileAt(grid, c), grid, IndexOf(c), Val(tile_data_cache), flags)
\* handle_tile has called the default factory for the current cell.
DefaultActed == pc \in {"scan", "finalize", "returned", "raised"} /\ pos >= 1
\* The default factory returned for the current cell, the tile t, and no
\* token has been looked at yet.
JustActed(t) ==
    /\ vi = 1
    /\ \/ pc = "scan" /\ hi = Len(handlers) /\ applied = <<>>
       \/ pc = "finalize" /\ t.variants = <<>>
DefaultJustActed == pos >= 1 /\ JustActed(CurTile)
AutoTile(t) == db[t.name] # None /\ Val(db[t.name]).tiling \in AUTO_TILINGS
\* Is the cell dy rows and dx columns away from the cell c = <<s, l, r, c>>
\* in its layer?
InLayer(c, dx, dy) ==
    /\ c[3] + dy \in 1 .. Len(grid[c[1]][c[2]])
    /\ c[4] + dx \in 1 .. Len(grid[c[1]][c[2]][1])
NameAt(c, dx, dy) == grid[c[1]][c[2]][c[3] + dy][c[4] + dx].name
\* What the specification says of the neighbour (dx, dy) of the cell c.
Joins(c, dx, dy) ==
    IF InLayer(c, dx, dy)
    THEN NameAt(c, dx, dy) \in {TileAt(grid, c).name, "level", "border"}
    ELSE "tile_borders" \in flags
Offsets == (-1 .. 1) \X (-1 .. 1)
\* The coordinate (step, x, y, layer) of the neighbour (dx, dy), from 0.
Coordinate(c, dx, dy) == <<c[1] - 1, c[4] - 1 + dx, c[3] - 1 + dy, c[2] - 1>>

\* C11: is_adjacent of a coordinate outside the layer is true iff the
\* tile_borders flag is set; of a coordinate inside the layer it is true iff
\* the tile there has the origin's name or is named "level" or "border".
C11_IsAdjacent ==
    DefaultActed =>
        LET c == CurCell
            ctx == ContextOf(c)
        IN  \A o \in Offsets :
                is_adjacent(ctx, Coordinate(c, o[1], o[2]))
                    = IF InLayer(c, o[1], o[2])
                      THEN NameAt(c, o[1], o[2])
                              \in {TileAt(grid, c).name, "level", "border"}
                      ELSE "tile_borders" \in flags
\* An auto-tiling tile at the edge of the grid, next to tiles of the two
\* names that join with everything, has been given its default fields with
\* the flag unset.
C11_Witness ==
    /\ pos >= 1
    /\ "tile_borders" \notin flags
    /\ LET c == CurCell
           t == TileAt(grid, c)
           ctx == ContextOf(c)
       IN  /\ JustActed(t)
           /\ AutoTile(t)
           /\ \E o \in Offsets :
                 InLayer(c, o[1], o[2]) /\ NameAt(c, o[1], o[2]) = "level"
                 /\ is_adjacent(ctx, Coordinate(c, o[1], o[2]))
           /\ \E o \in Offsets :
                 InLayer(c, o[1], o[2]) /\ NameAt(c, o[1], o[2]) = "border"
           /\ \E o \in Offsets :
                 ~InLayer(c, o[1], o[2])
                 /\ ~is_adjacent(ctx, Coordinate(c, o[1], o[2]))

\* All 8 neighbours of the cell are in the layer and have its tile's name.
AllEightMatch(c) ==
    \A o \in Offsets :
        InLayer(c, o[1], o[2]) /\ NameAt(c, o[1], o[2]) = TileAt(grid, c).name
\* The 4 cardinal neighbours join and no diagonal neighbour does.
CardinalsOnlyMatch(c) ==
    \A o \in Offsets \ {<<0, 0>>} :
        Joins(c, o[1], o[2]) <=> (o[1] = 0 \/ o[2] = 0)
\* The mask the specification describes for the cell c.
SpecMask(c) ==
    <<Joins(c, 1, 0), Joins(c, 0, -1), Joins(c, -1, 0), Joins(c, 0, 1),
      Joins(c, 1, 0) /\ Joins(c, 0, -1) /\ Joins(c, 1, -1),
      Joins(c, 0, -1) /\ Joins(c, -1, 0) /\ Joins(c, -1, -1),
      Joins(c, -1, 0) /\ Joins(c, 0, 1) /\ Joins(c, -1, 1),
      Joins(c, 0, 1) /\ Joins(c, 1, 0) /\ Joins(c, 1, 1)>>
AllBits == [k \in 1 .. 8 |-> TRUE]
CardinalBits == [k \in 1 .. 8 |-> k <= 4]

\* C12: in the 8-neighbour mask of an auto-tiling tile each diagonal bit is
\* set iff both cardinal neighbours next to it join and the diagonal cell
\* joins; with all 8 neighbours of the origin's name the four diagonal bits
\* are set, with only the 4 cardinal neighbours joining none is, and the two
\* masks are different keys.
C12_DiagonalBits ==
    DefaultActed =>
        LET c == CurCell
            m == adj(ContextOf(c))
        IN  AutoTile(TileAt(grid, c)) =>
                /\ m = SpecMask(c)
                /\ AllEightMatch(c) => m = AllBits
                /\ CardinalsOnlyMatch(c) => (m = CardinalBits /\ m # AllBits)
\* The centre of a 3 x 3 block of one auto-tiling name got the variant of the
\* mask with all 8 bits set, and its fallback is the cardinal-only variant.
C12_Witness ==
    /\ pos >= 1
    /\ tiling_variants = "full"
    /\ LET c == CurCell
       IN  /\ JustActed(TileAt(grid, c))
           /\ AutoTile(TileAt(grid, c))
           /\ AllEightMatch(c)
           /\ fields.variant_number = TilingId(AllBits)
           /\ fields.variant_fallback = TilingId(CardinalBits)
           /\ fields.variant_number # fields.variant_fallback

\* C13: just after the default factory, an auto-tiling tile has
\* variant_fallback equal to the table entry of the cardinal-only mask and
\* variant_number equal to the entry of the full mask when the table has one
\* and to variant_fallback otherwise; a tile with a record that is not
\* auto-tiling has 0 for both.
C13_Fallback ==
    pos >= 1 =>
        LET c == CurCell
            t == TileAt(grid, c)
            m == SpecMask(c)
        IN  (JustActed(t) /\ db[t.name] # None) =>
                IF AutoTile(t)
                THEN /\ fields.variant_fallback = TilingId(Cardinal(m))
                     /\ fields.variant_number =
                            IF m \in TilingKeys THEN TilingId(m)
                            ELSE fields.variant_fallback
                ELSE fields.variant_fallback = 0 /\ fields.variant_number = 0
\* The table has no entry for the mask of the current cell, which has a
\* diagonal bit, and the tile got the cardinal-only variant.
C13_Witness ==
    /\ pos >= 1
    /\ LET c == CurCell
           t == TileAt(grid, c)
           m == SpecMask(c)
       IN  /\ JustActed(t)
           /\ AutoTile(t)
           /\ m \notin TilingKeys
           /\ \E k \in 5 .. 8 : m[k]
           /\ fields.variant_number = fields.variant_fallback
           /\ fields.variant_fallback = TilingId(Cardinal(m))
           /\ fields.variant_fallback > 0

\* C14: for a tile not named "-", resolution fails with TileNotFound iff the
\* cache has no record for its name and the tile is not a text tile; a text
\* tile without a record starts from custom = true, variant_number 0,
\* color_index (0, 3), meta_level 0.
C14_TileNotFound ==
    DefaultActed =>
        LET t == CurTile
            norecord == t.name \notin DOMAIN Val(tile_data_cache)
        IN  t.name # "-" =>
                /\ (pc = "raised" /\ Val(error).kind = "TileNotFound")
                        <=> (norecord /\ ~t.is_text)
                /\ (norecord /\ t.is_text /\ JustActed(t)) =>
                        fields = [custom |-> TRUE, variant_number |-> 0,
                                  color_index |-> <<0, 3>>, meta_level |-> 0]
\* In one grid without records a text tile was resolved and the tile after
\* it, not a text tile, failed with TileNotFound.
C14_Witness ==
    /\ pc = "raised"
    /\ pos = 2
    /\ Val(error) = [kind |-> "TileNotFound", tile |-> "baba"]
    /\ tile_data_cache = Some(EmptyFields)
    /\ Len(out) = 1
    /\ out[1].name = "text_ab"
    /\ FullCustom(out[1])
    /\ FullVariantNumber(out[1]) = 0

\* C15: resolving a tile named "-" never fails and always gives a descriptor
\* marked empty, whatever its tokens, the cache and the flags.
C15_EmptyShortCircuit ==
    (DefaultActed /\ CurTile.name = "-") =>
        /\ pc # "raised"
        /\ "empty" \in DOMAIN fields
        /\ fields.empty

\* C16: handle_grid asks the store once, for the set of all names of the
\* grid, before the first handle_tile call, and every handle_tile call gets
\* the cache built from that one answer.
C16_FetchOnce ==
    [][/\ Len(fetched') <= 1
       /\ pos' >= 1 =>
            /\ fetched' = <<GridNames(grid)>>
            /\ tile_data_cache' = Some(tiles(db, GridNames(grid)))
       /\ pos >= 1 => tile_data_cache' = tile_data_cache
       /\ pos' = 0 => (fetched' = <<>> /\ tile_data_cache' = None)]_vars
\* A grid with more cells than names, and two names, has been resolved.
C16_Witness ==
    /\ pc = "returned"
    /\ fetched = <<GridNames(grid)>>
    /\ Cardinality(GridNames(grid)) = 2
    /\ Len(Cells(grid)) > 2
    /\ Len(Val(result)) = Len(Cells(grid))

\* The list bound to extra_names after the finalizer ran on the descriptor.
WrittenNames(full) == finalize_names(full, flags, extra_names)

\* C17 as stated: resolving a cell changes neither the grid, the cache, the
\* registry nor any flag value, the list bound to extra_names included.
C17_Original ==
    [][pos >= 1 =>
         /\ grid' = grid
         /\ db' = db
         /\ tile_data_cache' = tile_data_cache
         /\ handlers' = handlers
         /\ flags' = flags
         /\ extra_names' = extra_names]_vars
\* C17: resolving a cell changes neither the grid, the cache, the registry
\* nor the flags, except that the finalizer writes to the list bound to
\* extra_names when there is one; the accumulator and the extras map are made
\* anew for every tile.
C17_Frame ==
    [][pos >= 1 =>
         /\ grid' = grid
         /\ db' = db
         /\ tile_data_cache' = tile_data_cache
         /\ handlers' = handlers
         /\ flags' = flags
         /\ extra_names' # extra_names =>
                /\ pc = "finalize"
                /\ extra_names # None
                /\ extra_names' = WrittenNames(from_tile_fields(CurTile, fields))
         /\ (pc = "finalize" /\ extra_names # None) =>
                extra_names' = WrittenNames(from_tile_fields(CurTile, fields))
         /\ (pc = "default" /\ pc' # "raised") =>
                /\ extras' = EmptyFields
                /\ fields' = default(ContextOf(CurCell)).value]_vars
\* Two auto-tiling tiles were resolved in one call with an extra_names list:
\* the second one's auto token replaced its variant although the first tile
\* had marked its own extras map, and the list was written to.
C17_Witness ==
    /\ pc = "returned"
    /\ Len(out) = 2
    /\ TileAt(grid, Cells(grid)[1]).variants = <<"tr">>
    /\ TileAt(grid, Cells(grid)[2]).variants = <<"tu">>
    /\ FullVariantNumber(out[1]) = 1
    /\ FullVariantNumber(out[2]) = 2
    /\ extra_names = Some(<< <<"render">> >>)

---------------------------------------------------------------------------
(* The diagnostic probe.                                                   *)

\* The probes of valid_variants: <<list position of the rule, position of
\* the hint among the rule's hints>>.
Probes ==
    {p \in (1 .. Len(handlers)) \X (1 .. 4) : p[2] <= Len(hints(handlers[p[1]]))}
\* The probe p has been made and valid_variants went on after it.
Passed(p) ==
    \/ vpc = "returned"
    \/ p[1] < vh
    \/ p[1] = vh /\ p[2] < vk
\* What the rule does with its documented token on the tile of the call.
ProbeResult(p) ==
    LET h == handlers[p[1]]
        variant == hints(h)[p[2]][1]
        groups == match(h, variant)
    IN  IF groups = None THEN Return(EmptyFields)
        ELSE handle(h, mock_ctx(vtile, vcache, variant, Val(groups)))
RaisesVariantError(p) ==
    ProbeResult(p).raised /\ ProbeResult(p).exc.kind \in VariantErrorKinds
RaisesOther(p) ==
    ProbeResult(p).raised /\ ProbeResult(p).exc.kind \notin VariantErrorKinds
\* The description of the probed token is in the result.
Listed(p) ==
    LET h == handlers[p[1]]
    IN  /\ group(h) \in DOMAIN vout
        /\ \E n \in 1 .. Len(vout[group(h)]) :
              vout[group(h)][n] = hints(h)[p[2]][2]

\* C18: a documented token whose probe raises a VariantError (or a subclass)
\* is left out of the result and the scan goes on; a probe that raises any
\* other exception ends valid_variants with that exception.
C18_SwallowsOnlyVariantError ==
    vpc # "off" =>
        \A p \in Probes :
            /\ Passed(p) => (~RaisesOther(p) /\ (Listed(p) <=> ~RaisesVariantError(p)))
            /\ ~Passed(p) => ~Listed(p)
            /\ (vpc = "raised" /\ p = <<vh, vk>>) =>
                    (RaisesOther(p) /\ verror = Some(ProbeResult(p).exc))
            /\ (vpc = "probe" /\ p = <<vh, vk>>) => verror = None
\* valid_variants ended with the ValueError of a probe, after it had left a
\* token out for a VariantError and listed another.
C18_Witness ==
    /\ vpc = "raised"
    /\ Val(verror).kind = "ValueError"
    /\ \E p \in Probes : Passed(p) /\ RaisesVariantError(p) /\ ~Listed(p)
    /\ \E p \in Probes : Passed(p) /\ Listed(p)

\* C19: no step of valid_variants, handle_tile or handle_grid changes the
\* handler list, which stays as setup left it, and every probe of
\* valid_variants gets an empty accumulator and an empty extras map.
C19_RegistryUnchanged ==
    [][/\ handlers = SetupHandlers
       /\ handlers' = handlers
       /\ vctx' # vctx =>
            /\ vctx'[Len(vctx')].ctx.fields = EmptyFields
            /\ vctx'[Len(vctx')].ctx.extras = EmptyFields]_vars
\* valid_variants failed on an auto-tiling tile after both auto tokens were
\* probed and listed, and the handler list is as before.
C19_Witness ==
    /\ vpc = "raised"
    /\ handlers = SetupHandlers
    /\ "wall" \in DOMAIN vcache
    /\ \E i, j \in 1 .. Len(vctx) :
          /\ i < j
          /\ vctx[i].handler = "auto"
          /\ vctx[j].handler = "auto"
          /\ vctx[j].ctx.extras = EmptyFields
    /\ "Alternate sprites" \in DOMAIN vout
    /\ \E n \in 1 .. Len(vout["Alternate sprites"]) :
          vout["Alternate sprites"][n] = "tu"

---------------------------------------------------------------------------
(* Raw variant numbers.                                                    *)

\* The raw numeric token does not fit the tiling category of the tile's
\* record: the try block of raw_variant raises BadTilingVariant.
Incompatible(t, variant) ==
    /\ variant \in DOMAIN IntTokens
    /\ db[t.name] # None
    /\ raw_variant_check(IntTokens[variant], Val(db[t.name]).tiling)

\* C20: a raw numeric token that does not fit the tile's tiling category
\* makes its transform fail with BadTilingVariant, which leaves handle_tile
\* and handle_grid: the transform never returns fields for such a token.
C20_RawBadTiling ==
    (pc = "scan" /\ \E n \in 1 .. Len(applied) : applied[n].handler = "raw_variant")
        => ~Incompatible(CurTile, CurVariant)

---------------------------------------------------------------------------
(* The finalizer's default custom style: finalize, 359-375.                *)

\* The descriptor handle_tile builds for the current tile and the one the
\* finalizer leaves in the output.
Built == from_tile_fields(CurTile, fields)
Finalized == out'[Len(out')]

\* C21 as stated: the finalizer gives a custom tile without a token-set
\* custom_style the style "letter" exactly when the name has two characters
\* after its five-character prefix and "noun" otherwise, and never changes a
\* custom_style a token set.
C21_Original ==
    [][pc = "finalize" =>
        /\ (FullCustom(Built) /\ FullCustomStyle(Built) = None) =>
              FullCustomStyle(Finalized) =
                Some(IF SuffixLen(CurTile.name) = 2 THEN "letter" ELSE "noun")
        /\ FullCustomStyle(Built) # None =>
              FullCustomStyle(Finalized) = FullCustomStyle(Built)]_vars

\* C21 amended: the finalizer gives a custom tile without a token-set
\* custom_style the style "letter" only when the name has two characters
\* after its prefix and the default_to_letters flag is set, "noun" in every
\* other case; a custom_style a token set is never changed, and a tile that
\* is not custom keeps its descriptor.
C21_DefaultStyle ==
    [][pc = "finalize" =>
        /\ (FullCustom(Built) /\ FullCustomStyle(Built) = None) =>
              Finalized = [Built EXCEPT !.fields = FieldsUpdate(@,
                [custom_style |->
                    IF SuffixLen(CurTile.name) = 2
                       /\ "default_to_letters" \in flags
                    THEN "letter" ELSE "noun"])]
        /\ FullCustomStyle(Built) # None => Finalized = Built
        /\ ~FullCustom(Built) => Finalized = Built]_vars

\* A two-character text tile was finalized as a letter under the flag.
C21_Witness ==
    /\ pc = "returned"
    /\ "default_to_letters" \in flags
    /\ Len(out) = 1
    /\ out[1].name = "text_ab"
    /\ FullCustom(out[1])
    /\ FullCustomStyle(out[1]) = Some("letter")

---------------------------------------------------------------------------
(* Registration order and priority: handler, 86-120; handle_tile, 203-223. *)

\* The list position the call r of handler() asks for in the list before it:
\* one past the end without `order`, the 0-based `order` otherwise (the end
\* when the list is shorter).
AskedPosition(r, list) ==
    IF r.order = None \/ Val(r.order) > Len(list)
    THEN Len(list) + 1
    ELSE Val(r.order) + 1
\* Among the rules invoked for the current token, the one at the lowest list
\* position that set the attribute k.
LowestSetting(k) ==
    CHOOSE i \in DOMAIN applied :
        /\ k \in DOMAIN applied[i].value
        /\ \A j \in DOMAIN applied :
              k \in DOMAIN applied[j].value =>
                  applied[i].position <= applied[j].position

\* C22: a rule registered without `order` is appended to the rule list (the
\* highest position, the least priority); a rule registered with an `order`
\* is inserted at that position and the rules from there on move up by one;
\* and when several rules at different positions match a token and set the
\* same attribute, the attribute holds the value of the rule at the lowest
\* position once the token is done.
C22_Priority ==
    [][/\ registered' # registered =>
            LET r == registered'[Len(registered')]
                p == AskedPosition(r, handlers)
            IN  /\ Len(handlers') = Len(handlers) + 1
                /\ handlers'[p] = r.handler
                /\ \A i \in DOMAIN handlers :
                      handlers'[IF i < p THEN i ELSE i + 1] = handlers[i]
       /\ TokenDone =>
            \A i \in DOMAIN applied : \A k \in DOMAIN applied[i].value :
                fields[k] = applied[LowestSetting(k)].value[k]]_vars

\* Two rules matched one token; the one at the lower position was registered
\* last, with order 0, and its value of `filters` is the one kept.
C22_Witness ==
    /\ TokenDone
    /\ Len(registered) = 2
    /\ registered[2].order = Some(0)
    /\ Len(applied) = 2
    /\ applied[2].handler = registered[2].handler
    /\ applied[2].position = 1
    /\ applied[1].value.filters # applied[2].value.filters
    /\ fields.filters = applied[2].value.filters

---------------------------------------------------------------------------
(* The finalizer's place in handle_tile: 201-226.                          *)

\* C23: the finalizer runs exactly once for every handle_tile that succeeds:
\* on the descriptor built from the accumulator after the default factory
\* and the transforms of all the tile's tokens have run, and before the
\* descriptor joins the output; a tile that fails is not finalized.
C23_FinalizerOnce ==
    [][/\ pc \in {"default", "scan", "finalize"} => Len(out) = pos - 1
       /\ (out' # out \/ extra_names' # extra_names) =>
            /\ pc = "finalize"
            /\ vi = Len(CurTile.variants) + 1
            /\ out' = Append(out, finalize(Built, flags))
            /\ extra_names' = finalize_names(Built, flags, extra_names)
       /\ pc = "finalize" => Len(out') = pos
       /\ pc' = "raised" => (out' = out /\ extra_names' = extra_names)
       /\ pc' = "returned" =>
            (Len(out') = Len(Cells(grid)) /\ result' = Some(out'))]_vars

\* A grid of one tile with a token was resolved and its finalizer ran once:
\* the list of names holds the key of the tile.
C23_Witness ==
    /\ pc = "returned"
    /\ Len(out) = 1
    /\ Len(TileAt(grid, Cells(grid)[1]).variants) >= 1
    /\ extra_names = Some(<<RenderKey(out[1])>>)

---------------------------------------------------------------------------
(* Auto tokens: auto, 449-469.                                             *)

\* The scan is about to call the rule h for the current token.
Invokes(h) ==
    /\ pc = "scan"
    /\ NextMatch(hi, CurVariant) > 0
    /\ handlers[NextMatch(hi, CurVariant)] = h
\* An earlier token of the current tile is an auto token.
LaterAuto ==
    \E k \in 1 .. (vi - 1) : CurTile.variants[k] \in DOMAIN AUTO_VARIANTS

\* C24: on a tile that allows auto tokens, the first auto token of the tile
\* replaces variant_number by the token's value, whatever the default
\* factory computed, and every later auto token of the same tile ORs its
\* value into the current variant_number; the marker that tells them apart
\* is in the extras map, which starts empty for every tile.
C24_AutoTokens ==
    [][/\ (Invokes("auto") /\ pc' # "raised") =>
            /\ fields' = FieldsUpdate(fields,
                  [variant_number |->
                      IF LaterAuto
                      THEN BitOr(FullVariantNumber(Built), AUTO_VARIANTS[CurVariant])
                      ELSE AUTO_VARIANTS[CurVariant]])
            /\ extras' = FieldsUpdate(extras, [auto_override |-> TRUE])
            /\ LaterAuto <=> "auto_override" \in DOMAIN extras
       /\ (pc = "default" /\ pc' # "raised") => extras' = EmptyFields]_vars

\* The first of two joined walls carried the tokens tu and tr: tu replaced
\* the adjacency-computed 1 by 2 and tr was ORed in.
C24_Witness ==
    /\ TokenDone
    /\ pos = 1
    /\ vi = 2
    /\ Len(Cells(grid)) = 2
    /\ CurTile.variants = <<"tu", "tr">>
    /\ TileAt(grid, Cells(grid)[2]).name = "wall"
    /\ Len(applied) = 1
    /\ applied[1].handler = "auto"
    /\ fields.variant_number = 3

---------------------------------------------------------------------------
(* Tiling-gated tokens: animations, sleep, auto, 413-469.                  *)

\* The rules gated by the tiling category, the categories each one allows
\* and the frame an animation or sleep token stands for.
GatedRules == {"animations", "sleep", "auto"}
AllowedTilings(h) ==
    CASE h = "animations" -> ANIMATION_TILINGS
      [] h = "sleep"      -> SLEEP_TILINGS
      [] h = "auto"       -> AUTO_TILINGS
FrameOf(h, variant) ==
    IF h = "animations" THEN ANIMATION_VARIANTS[variant]
    ELSE SLEEP_VARIANTS[variant]
\* The accumulators f and g agree on every attribute but variant_number.
SameButVariantNumber(f, g) ==
    /\ DOMAIN f \cup {"variant_number"} = DOMAIN g \cup {"variant_number"}
    /\ \A k \in (DOMAIN f \cap DOMAIN g) \ {"variant_number"} : f[k] = g[k]

\* C25: an animation, sleep or auto token on a tile that has no record, or
\* whose tiling category is not among those the token's rule allows, fails
\* with BadTilingVariant and no descriptor is produced; on a tile whose
\* category is allowed the token changes variant_number and nothing else in
\* the accumulator, and an animation or sleep token keeps the direction:
\* variant_number becomes join(direction of the current variant, frame).
C25_TilingGate ==
    [][\A h \in GatedRules : Invokes(h) =>
          LET rec == RecordOf(CurTile)
          IN  IF rec = None \/ Val(rec).tiling \notin AllowedTilings(h)
              THEN /\ pc' = "raised"
                   /\ error' # None
                   /\ Val(error').kind = "BadTilingVariant"
                   /\ Val(error').tile = CurTile.name
                   /\ Val(error').variant = CurVariant
                   /\ out' = out
                   /\ result' = None
              ELSE /\ pc' = "scan"
                   /\ error' = None
                   /\ "variant_number" \in DOMAIN fields'
                   /\ SameButVariantNumber(fields, fields')
                   /\ h # "auto" =>
                        fields'.variant_number =
                            join_variant(
                                split_variant(FieldsGet(fields, "variant_number"))[1],
                                FrameOf(h, CurVariant))]_vars

\* A sleep token followed a direction token on a tile of a category that
\* allows both: the variant number is up (8) joined with the sleep frame.
C25_Witness ==
    /\ TokenDone
    /\ vi = 2
    /\ CurTile.variants = <<"u", "s">>
    /\ Len(applied) = 1
    /\ applied[1].handler = "sleep"
    /\ fields.variant_number = 7
    /\ fields.custom_direction = 8

---------------------------------------------------------------------------
(* The axes of the grid: handle_grid, 238-251; default, 317-336;           *)
(* is_adjacent, 47-55.                                                     *)

\* The tile the adjacency query for the coordinate q = (d, x, y, l) reads.
QueriedCell(q) == <<q[1] + 1, q[4] + 1, q[3] + 1, q[2] + 1>>
\* Is <<s, l, r, c>> a cell of the grid?
InGrid(c) ==
    /\ c[1] \in 1 .. Len(grid)
    /\ c[2] \in 1 .. Len(grid[c[1]])
    /\ c[3] \in 1 .. Len(grid[c[1]][c[2]])
    /\ c[4] \in 1 .. Len(grid[c[1]][c[2]][c[3]])

\* C26: for an auto-tiling tile at grid[s][l][r][c], the adjacency queries of
\* the default factory stay in step s and layer l; the neighbour dx columns
\* and dy rows away is grid[s][l][r + dy][c + dx] (right is column c + 1, up
\* is row r - 1, left is column c - 1, down is row r + 1) when that cell is
\* in the layer and the tile_borders flag otherwise; no query reads a cell
\* outside the grid; and the fields the factory returns are those of this
\* mask.
C26_Axes ==
    pos >= 1 =>
        LET c == CurCell
            t == TileAt(grid, c)
            ctx == ContextOf(c)
            m == adj(ctx)
        IN  (JustActed(t) /\ AutoTile(t)) =>
                /\ \A o \in Offsets :
                      LET q == neighbour(ctx, o[1], o[2])
                          n == <<c[1], c[2], c[3] + o[2], c[4] + o[1]>>
                      IN  /\ QueriedCell(q) = n
                          /\ InLayer(c, o[1], o[2]) <=> InGrid(n)
                          /\ is_adjacent(ctx, q) =
                                IF InGrid(n)
                                THEN TileAt(grid, n).name \in {t.name, "level", "border"}
                                ELSE "tile_borders" \in flags
                /\ m[1] = is_adjacent(ctx, neighbour(ctx, 1, 0))
                /\ m[2] = is_adjacent(ctx, neighbour(ctx, 0, -1))
                /\ m[3] = is_adjacent(ctx, neighbour(ctx, -1, 0))
                /\ m[4] = is_adjacent(ctx, neighbour(ctx, 0, 1))
                /\ fields.variant_fallback = TilingId(Cardinal(m))
                /\ fields.variant_fallback = TilingId(Cardinal(SpecMask(c)))

\* An auto-tiling tile in the second layer of the second step joins the tile
\* below it in its own layer, while the cells at its place in the other
\* layer and in the other step hold tiles that join differently.
C26_Witness ==
    /\ pos >= 1
    /\ LET c == CurCell
           t == TileAt(grid, c)
       IN  /\ JustActed(t)
           /\ AutoTile(t)
           /\ c = <<2, 2, 1, 1>>
           /\ "tile_borders" \notin flags
           /\ TileAt(grid, <<2, 2, 2, 1>>).name = "wall"
           /\ TileAt(grid, <<2, 1, 2, 1>>).name = "baba"
           /\ TileAt(grid, <<1, 2, 2, 1>>).name = "baba"
           /\ fields.variant_fallback = TilingId(<<FALSE, FALSE, FALSE, TRUE,
                                                   FALSE, FALSE, FALSE, FALSE>>)

---------------------------------------------------------------------------
(* The extra_names list: finalize, 359-370.                                *)

\* C27: a list passed empty as the extra_names flag never holds more than
\* one element: it is empty until the first tile is finalized, holds that
\* tile's key (its meta level, its name and its variant number) after one
\* tile and the single element "render" once two or more tiles have been
\* finalized; so a grid of one tile ends with [key] and a larger grid with
\* ["render"].
C27_ExtraNames ==
    extra_names # None =>
        LET names == Val(extra_names)
        IN  /\ Len(names) <= 1
            /\ Len(out) = 0 => names = <<>>
            /\ Len(out) = 1 =>
                  names = << <<"key", FullMetaLevel(out[1]), out[1].name,
                               FullVariantNumber(out[1])>> >>
            /\ Len(out) >= 2 => names = << <<"render">> >>
            /\ pc = "returned" =>
                  Len(names) = 1 /\
                  (names[1] = <<"render">> <=> Len(Cells(grid)) >= 2)

\* A grid of two tiles was resolved with an empty list: the list ends as
\* ["render"], after holding the key of the first tile.
C27_Witness ==
    /\ pc = "returned"
    /\ Len(Cells(grid)) = 2
    /\ out[1].name = "baba"
    /\ out[2].name = "text_ab"
    /\ extra_names = Some(<< <<"render">> >>)

---------------------------------------------------------------------------
(* Direction and frame tokens commute: directions, animations, sleep.      *)

\* The tiling category allows direction tokens and the token of the frame a.
SupportsBoth(tiling, a) ==
    /\ tiling \in DIRECTION_TILINGS
    /\ tiling \in (IF a = -1 THEN SLEEP_TILINGS ELSE ANIMATION_TILINGS)

\* C28: on a tile whose tiling category allows direction tokens and the
\* frame token, a direction token d and a frame token a leave variant_number
\* at (d + a) mod 32 in either order, whatever variant number in 0..31 (or
\* none) the tile had before; the direction token keeps the frame of the
\* variant number it finds and the frame token keeps its direction.
C28_Commute ==
    SupportsBoth(ctiling, canim) =>
        LET before == split_variant(cvariant)
        IN  /\ cdirfirst # None =>
                  /\ Val(cdirfirst) =
                        <<Some(join_variant(cdir, before[2])),
                          Some((cdir + canim) % 32)>>
                  /\ split_variant(Val(cdirfirst)[1]) = <<cdir, before[2]>>
                  /\ split_variant(Val(cdirfirst)[2]) = <<cdir, canim>>
            /\ cframefirst # None =>
                  /\ Val(cframefirst) =
                        <<Some(join_variant(before[1], canim)),
                          Some((cdir + canim) % 32)>>
                  /\ split_variant(Val(cframefirst)[1]) = <<before[1], canim>>
                  /\ split_variant(Val(cframefirst)[2]) = <<cdir, canim>>

\* Both orders were applied to a tile that faced left in frame 2: "d" and the
\* sleep token leave it at 23 either way.
C28_Witness ==
    /\ cvariant = Some(18)
    /\ cdir = 24
    /\ canim = -1
    /\ ctiling = "2"
    /\ cdirfirst = Some(<<Some(26), Some(23)>>)
    /\ cframefirst = Some(<<Some(15), Some(23)>>)

---------------------------------------------------------------------------
(* Meta tokens: meta, meta_absolute, 610-627; default, 343-357; add.       *)

\* The depth a token of meta_absolute asks for.
AskedDepth(variant) == int(MetaTokens[variant])

\* C29: no token changes the accumulator's meta_level, which stays at the 0
\* the default factory sets; the token "m" (or "meta") appends the entry
\* ("meta_level", 1) to filters and "mN" the entry ("meta_level", N), and
\* they change nothing else; "mN" with |N| above the maximum depth fails
\* with BadMetaVariant.
C29_MetaTokens ==
    [][/\ pc = "scan" =>
            FieldsGet(fields', "meta_level") = FieldsGet(fields, "meta_level")
       /\ (pc = "default" /\ "meta_level" \in DOMAIN fields') =>
            fields'.meta_level = 0
       /\ pc = "finalize" => FullMetaLevel(Finalized) = 0
       /\ Invokes("meta") =>
            /\ pc' = "scan"
            /\ fields' = FieldsUpdate(fields,
                  [filters |-> Append(FullFilters(Built), <<"meta_level", 1>>)])
       /\ Invokes("meta_absolute") =>
            IF abs(AskedDepth(CurVariant)) > MAX_META_DEPTH
            THEN /\ pc' = "raised"
                 /\ error' # None
                 /\ Val(error').kind = "BadMetaVariant"
                 /\ out' = out
            ELSE /\ pc' = "scan"
                 /\ fields' = FieldsUpdate(fields,
                       [filters |-> Append(FullFilters(Built),
                                           <<"meta_level", AskedDepth(CurVariant)>>)])]_vars

\* A tile carried "m24" and "m": both went to the filter list and the
\* descriptor's meta_level is still 0.
C29_Witness ==
    /\ pc = "returned"
    /\ Len(out) = 1
    /\ TileAt(grid, Cells(grid)[1]).variants = <<"m24", "m">>
    /\ FullFilters(out[1]) = << <<"meta_level", 24>>, <<"meta_level", 1>> >>
    /\ FullMetaLevel(out[1]) = 0
    /\ "meta_level" \in DOMAIN out[1].fields

---------------------------------------------------------------------------
(* Documented tokens that do not match their rule: valid_variants, 160-183. *)

\* The documented token of the probe p and whether its own rule matches it.
HintOf(p) == hints(handlers[p[1]])[p[2]][1]
Mismatched(p) == match(handlers[p[1]], HintOf(p)) = None
\* Some rule was called with the documented token of the probe p.
Invoked(p) ==
    \E n \in DOMAIN vctx : vctx[n].ctx.variant = HintOf(p)

====
